---- MODULE Spec2Model ----
(***************************************************************************)
(* Availability and conflict-resolution engine of the booking system       *)
(* (src/app.py, src/models.py).                                            *)
(*                                                                         *)
(* Wall-clock strings 'HH:MM' are sequences of characters.  A character is *)
(* a number: the digits '0'..'9' are 0..9 and ':' is 10, which keeps the   *)
(* byte order of the characters ('9' < ':').  None is the empty sequence.  *)
(* A date is a day number; its weekday is the day number modulo 7.         *)
(***************************************************************************)
EXTENDS Integers, Sequences, FiniteSets, TLC

\* ------------------------------------------------------------------ bounds
MaxBookings == 2
MaxBlocks == 1
MaxRows == 2
MaxEndMins == 600
MaxBlockRows == 2
MaxWindows == 3
MaxSnapshot == 120
MaxMinutes == 1500

\* ------------------------------------------------------- program constants
SlotStride == 30
MinDuration == 15
MaxDuration == 240
FallbackDuration == 30
ModifyHours == 24
ReminderHours == 24

\* ----------------------------------------------------------- input domains
Services == {1, 2}
Dates == {1, 2}
Clients == {1, 2}
NoUser == 0
Colon == 10
NoneStr == << >>

\* ------------------------------------------------------- strings and times
RECURSIVE Digits(_)
Digits(k) == IF k < 10 THEN <<k>> ELSE Digits(k \div 10) \o <<k % 10>>

\* Python format spec 02d: at least two digits, zero padded.
Pad2(k) == IF k < 10 THEN <<0, k>> ELSE Digits(k)

RECURSIVE IntOf(_)
IntOf(s) == IF Len(s) = 0 THEN 0
            ELSE IntOf(SubSeq(s, 1, Len(s) - 1)) * 10 + s[Len(s)]

ColonAt(s) == CHOOSE i \in 1..Len(s) : s[i] = Colon

time_to_minutes(time_str) ==
    LET p == ColonAt(time_str)
        h == IntOf(SubSeq(time_str, 1, p - 1))
        m == IntOf(SubSeq(time_str, p + 1, Len(time_str)))
    IN h * 60 + m

\* Faulty variant: the hour wraps to the next day.
minutes_to_time_wrapping(minutes) ==
    LET h == (minutes \div 60) % 24
        m == minutes % 60
    IN Pad2(h) \o <<Colon>> \o Pad2(m)

minutes_to_time(minutes) ==
    LET h == minutes \div 60
        m == minutes % 60
    IN Pad2(h) \o <<Colon>> \o Pad2(m)

\* Ordering of two strings as the database compares String columns.
StrLt(a, b) ==
    \E i \in 1..(Len(b)) :
        /\ \A j \in 1..(i - 1) : j <= Len(a) /\ a[j] = b[j]
        /\ \/ i > Len(a)
           \/ (i <= Len(a) /\ a[i] < b[i])
StrLe(a, b) == a = b \/ StrLt(a, b)
StrGt(a, b) == StrLt(b, a)
StrGe(a, b) == StrLe(b, a)

weekday(d) == d % 7

T(m) == minutes_to_time(m)

\* ------------------------------------------------------------------- state
VARIABLES
    bookings,      \* table booking: row id = index
    blocked,       \* table blocked_time, live rows in insertion order
    services,      \* table service: id -> duration_minutes
    availability,  \* table availability, rows in storage order
    pending,       \* session['pending_booking'] of each browser session
    pc,            \* position of each session's intake_form POST request
    now,           \* wall clock read by datetime.now()
    intake_forms,  \* table intake_form: number of committed rows
    last           \* the request handled last, with its outcome

vars == <<bookings, blocked, services, availability, pending, pc, now,
          intake_forms, last>>

Statuses == {"confirmed", "completed", "cancelled", "no_show"}
Occupying == {"confirmed", "completed"}

Booking(sid, uid, d, st, en) ==
    [service_id |-> sid, user_id |-> uid, booking_date |-> d,
     booking_time |-> st, end_time |-> en, status |-> "confirmed",
     reminder_sent |-> FALSE]

BlockedTime(d, st, en, allday, rec, dow) ==
    [date |-> d, start_time |-> st, end_time |-> en, is_all_day |-> allday,
     is_recurring_weekly |-> rec, recurring_day_of_week |-> dow]

Availability(dow, st, en) ==
    [day_of_week |-> dow, start_time |-> st, end_time |-> en, is_active |-> TRUE]

NoPending == [service_id |-> 0, total_duration |-> 0, booking_date |-> 0,
              booking_time |-> NoneStr, end_time |-> NoneStr]

Ids(bks) == 1..Len(bks)

\* ------------------------------------------------------------ block checks
\* Faulty variant: closed intervals, so that touching neighbours collide.
OverlapClosed(start_mins, end_mins, other_start, other_end) ==
    start_mins <= other_end /\ end_mins >= other_start

\* The interval test both validators write out at every call site.
Overlap(start_mins, end_mins, other_start, other_end) ==
    start_mins < other_end /\ end_mins > other_start

\* Faulty variant: the all-day query matches on the stored date alone, so a
\* recurring block's placeholder date blocks that date.
is_time_blocked_by_date(blks, booking_date, start_time, end_time) ==
    LET start_mins == time_to_minutes(start_time)
        end_mins == time_to_minutes(end_time)
        day_of_week == weekday(booking_date)
        Hit(i) == Overlap(start_mins, end_mins,
                          time_to_minutes(blks[i].start_time),
                          time_to_minutes(blks[i].end_time))
    IN \/ \E i \in 1..Len(blks) : blks[i].date = booking_date /\ blks[i].is_all_day
       \/ \E i \in 1..Len(blks) :
             /\ blks[i].is_recurring_weekly
             /\ blks[i].recurring_day_of_week = day_of_week
             /\ blks[i].is_all_day
       \/ \E i \in 1..Len(blks) :
             /\ blks[i].date = booking_date
             /\ ~blks[i].is_all_day
             /\ ~blks[i].is_recurring_weekly
             /\ Hit(i)
       \/ \E i \in 1..Len(blks) :
             /\ blks[i].is_recurring_weekly
             /\ blks[i].recurring_day_of_week = day_of_week
             /\ ~blks[i].is_all_day
             /\ Hit(i)

is_time_blocked(blks, booking_date, start_time, end_time) ==
    LET start_mins == time_to_minutes(start_time)
        end_mins == time_to_minutes(end_time)
        day_of_week == weekday(booking_date)
        all_day_blocks == {i \in 1..Len(blks) :
            /\ blks[i].date = booking_date
            /\ blks[i].is_all_day
            /\ ~blks[i].is_recurring_weekly}
        recurring_all_day == {i \in 1..Len(blks) :
            /\ blks[i].is_recurring_weekly
            /\ blks[i].recurring_day_of_week = day_of_week
            /\ blks[i].is_all_day}
        date_blocks == {i \in 1..Len(blks) :
            /\ blks[i].date = booking_date
            /\ ~blks[i].is_all_day
            /\ ~blks[i].is_recurring_weekly}
        recurring_blocks == {i \in 1..Len(blks) :
            /\ blks[i].is_recurring_weekly
            /\ blks[i].recurring_day_of_week = day_of_week
            /\ ~blks[i].is_all_day}
        Hit(i) == Overlap(start_mins, end_mins,
                          time_to_minutes(blks[i].start_time),
                          time_to_minutes(blks[i].end_time))
    IN \/ all_day_blocks # {}
       \/ recurring_all_day # {}
       \/ \E i \in date_blocks : Hit(i)
       \/ \E i \in recurring_blocks : Hit(i)

is_day_fully_blocked(blks, booking_date) ==
    \/ \E i \in 1..Len(blks) :
          /\ blks[i].date = booking_date
          /\ blks[i].is_all_day
          /\ ~blks[i].is_recurring_weekly
    \/ \E i \in 1..Len(blks) :
          /\ blks[i].is_recurring_weekly
          /\ blks[i].recurring_day_of_week = weekday(booking_date)
          /\ blks[i].is_all_day

\* Faulty variant: the status filter also keeps no_show rows.
ExistingBookingsNoShow(bks, booking_date) ==
    {i \in Ids(bks) : bks[i].booking_date = booking_date
                      /\ bks[i].status \in {"confirmed", "no_show"}}

\* Faulty variant: the status filter is missing.
ExistingBookingsAnyStatus(bks, booking_date) ==
    {i \in Ids(bks) : bks[i].booking_date = booking_date}

\* Rows the validator reads from the booking table.
ExistingBookings(bks, booking_date) ==
    {i \in Ids(bks) : bks[i].booking_date = booking_date
                      /\ bks[i].status = "confirmed"}

check_slot_available(bks, blks, booking_date, start_time, end_time) ==
    LET start_mins == time_to_minutes(start_time)
        end_mins == time_to_minutes(end_time)
    IN IF is_time_blocked(blks, booking_date, start_time, end_time)
       THEN FALSE
       ELSE ~\E i \in ExistingBookings(bks, booking_date) :
                Overlap(start_mins, end_mins,
                        time_to_minutes(bks[i].booking_time),
                        time_to_minutes(bks[i].end_time))

\* Faulty variant: the query without Booking.id != booking.id.
MoveConflictSelf(bks, id, new_date, new_time, new_end_time) ==
    \E i \in Ids(bks) :
        /\ bks[i].booking_date = new_date
        /\ bks[i].status \in {"confirmed", "completed"}
        /\ \/ (StrLe(bks[i].booking_time, new_time) /\ StrGt(bks[i].end_time, new_time))
           \/ (StrLt(bks[i].booking_time, new_end_time) /\ StrGe(bks[i].end_time, new_end_time))
           \/ (StrGe(bks[i].booking_time, new_time) /\ StrLe(bks[i].end_time, new_end_time))

\* The conflict query of move_booking: three clauses on the stored strings.
MoveConflict(bks, id, new_date, new_time, new_end_time) ==
    \E i \in Ids(bks) :
        /\ i # id
        /\ bks[i].booking_date = new_date
        /\ bks[i].status \in {"confirmed", "completed"}
        /\ \/ (StrLe(bks[i].booking_time, new_time) /\ StrGt(bks[i].end_time, new_time))
           \/ (StrLt(bks[i].booking_time, new_end_time) /\ StrGe(bks[i].end_time, new_end_time))
           \/ (StrGe(bks[i].booking_time, new_time) /\ StrLe(bks[i].end_time, new_end_time))

\* Faulty variant: the query without the status filter.
ExtendConflictAnyStatus(bks, id, new_end_time) ==
    \E i \in Ids(bks) :
        /\ i # id
        /\ bks[i].booking_date = bks[id].booking_date
        /\ StrLt(bks[i].booking_time, new_end_time)
        /\ StrGt(bks[i].end_time, bks[id].end_time)

\* The conflict query of extend_booking, on the stored strings.
ExtendConflict(bks, id, new_end_time) ==
    \E i \in Ids(bks) :
        /\ i # id
        /\ bks[i].booking_date = bks[id].booking_date
        /\ bks[i].status \in {"confirmed", "completed"}
        /\ StrLt(bks[i].booking_time, new_end_time)
        /\ StrGt(bks[i].end_time, bks[id].end_time)

\* ---------------------------------------------------------- slot generators
\* Faulty variant: the query does not filter on is_active.
ActiveWindowsAll(avail, day_of_week) ==
    SelectSeq(avail, LAMBDA a : a.day_of_week = day_of_week)

ActiveWindows(avail, day_of_week) ==
    SelectSeq(avail, LAMBDA a : a.day_of_week = day_of_week /\ a.is_active)

\* Faulty variant: the walk goes on while the start, not the whole slot, lies
\* inside the window.
RECURSIVE WalkDurationOverrun(_, _, _, _, _, _)
WalkDurationOverrun(bks, blks, d, duration_minutes, current, end_mins) ==
    IF current < end_mins
    THEN LET slot_start == minutes_to_time(current)
             slot_end == minutes_to_time(current + duration_minutes)
             here == IF check_slot_available(bks, blks, d, slot_start, slot_end)
                     THEN <<[start |-> slot_start, end |-> slot_end]>>
                     ELSE << >>
         IN here \o WalkDurationOverrun(bks, blks, d, duration_minutes,
                                        current + SlotStride, end_mins)
    ELSE << >>

RECURSIVE WalkDuration(_, _, _, _, _, _)
WalkDuration(bks, blks, d, duration_minutes, current, end_mins) ==
    IF current + duration_minutes <= end_mins
    THEN LET slot_start == minutes_to_time(current)
             slot_end == minutes_to_time(current + duration_minutes)
             here == IF check_slot_available(bks, blks, d, slot_start, slot_end)
                     THEN <<[start |-> slot_start, end |-> slot_end]>>
                     ELSE << >>
         IN here \o WalkDuration(bks, blks, d, duration_minutes,
                                 current + SlotStride, end_mins)
    ELSE << >>

RECURSIVE SlotsOverWindows(_, _, _, _, _)
SlotsOverWindows(bks, blks, d, duration_minutes, wins) ==
    IF Len(wins) = 0 THEN << >>
    ELSE WalkDuration(bks, blks, d, duration_minutes,
                      time_to_minutes(Head(wins).start_time),
                      time_to_minutes(Head(wins).end_time))
         \o SlotsOverWindows(bks, blks, d, duration_minutes, Tail(wins))

\* Faulty variant: the generator consults no block at all.
SlotsIgnoringBlocks(bks, blks, avail, duration_minutes, d) ==
    SlotsOverWindows(bks, << >>, d, duration_minutes,
                     ActiveWindows(avail, weekday(d)))

get_available_slots_for_duration(bks, blks, avail, duration_minutes, d) ==
    IF is_day_fully_blocked(blks, d) THEN << >>
    ELSE SlotsOverWindows(bks, blks, d, duration_minutes,
                          ActiveWindows(avail, weekday(d)))

get_available_slots_for_date(bks, blks, avail, svc, service, d) ==
    IF is_day_fully_blocked(blks, d) THEN << >>
    ELSE SlotsOverWindows(bks, blks, d, svc[service],
                          ActiveWindows(avail, weekday(d)))

\* exclude_booking = 0 is the request without the parameter (it is falsy).
MoveSlotFree(bks, d, slot_start, slot_end, exclude_booking_id) ==
    LET conflict == {i \in Ids(bks) :
            /\ bks[i].booking_date = d
            /\ bks[i].status \in {"confirmed", "completed"}
            /\ (exclude_booking_id # 0 => i # exclude_booking_id)}
    IN ~\E i \in conflict :
          Overlap(time_to_minutes(slot_start), time_to_minutes(slot_end),
                  time_to_minutes(bks[i].booking_time),
                  time_to_minutes(bks[i].end_time))

RECURSIVE WalkMove(_, _, _, _, _, _, _)
WalkMove(bks, blks, d, duration, exclude_booking_id, current, end_mins) ==
    IF current + duration <= end_mins
    THEN LET slot_start == minutes_to_time(current)
             slot_end == minutes_to_time(current + duration)
             here == IF is_time_blocked(blks, d, slot_start, slot_end)
                     THEN << >>
                     ELSE IF MoveSlotFree(bks, d, slot_start, slot_end,
                                          exclude_booking_id)
                          THEN <<[start |-> slot_start, end |-> slot_end]>>
                          ELSE << >>
         IN here \o WalkMove(bks, blks, d, duration, exclude_booking_id,
                             current + SlotStride, end_mins)
    ELSE << >>

RECURSIVE MoveSlotsOverWindows(_, _, _, _, _, _)
MoveSlotsOverWindows(bks, blks, d, duration, exclude_booking_id, wins) ==
    IF Len(wins) = 0 THEN << >>
    ELSE WalkMove(bks, blks, d, duration, exclude_booking_id,
                  time_to_minutes(Head(wins).start_time),
                  time_to_minutes(Head(wins).end_time))
         \o MoveSlotsOverWindows(bks, blks, d, duration, exclude_booking_id,
                                 Tail(wins))

get_available_slots_for_move(bks, blks, avail, d, duration, exclude_booking_id) ==
    IF is_day_fully_blocked(blks, d) THEN << >>
    ELSE MoveSlotsOverWindows(bks, blks, d, duration, exclude_booking_id,
                              ActiveWindows(avail, weekday(d)))


\* ---------------------------------------------------------------- history
NoOld == << >>
Last(op, ok, id, d, st, en, old) ==
    [op |-> op, ok |-> ok, id |-> id, date |-> d, start |-> st, end_ |-> en,
     old |-> old, file |-> << >>, res |-> << >>]

\* A refused request: which handler, and for which booking.
Rejected(op, id) == Last(op, FALSE, id, 0, NoneStr, NoneStr, NoOld)

SlotOf(b) == <<b.booking_date, b.booking_time, b.end_time>>

\* --------------------------------------------------------- public booking
RECURSIVE SumDurations(_, _)
SumDurations(svc, S) ==
    IF S = {} THEN 0
    ELSE LET s == CHOOSE x \in S : TRUE
         IN svc[s] + SumDurations(svc, S \ {s})

PrimaryService(S) == CHOOSE s \in S : \A x \in S : s <= x

\* POST /book/confirm from session c with the services S, no total_duration.
confirm_booking(c, S, booking_date, booking_time) ==
    LET total_duration == SumDurations(services, S)
        start_mins == time_to_minutes(booking_time)
        end_mins == start_mins + total_duration
        end_time == minutes_to_time(end_mins)
        free == check_slot_available(bookings, blocked, booking_date,
                                     booking_time, end_time)
    IN /\ S # {}
       /\ pc[c] = "idle"
       /\ pending' = IF free
                     THEN [pending EXCEPT ![c] =
                             [service_id |-> PrimaryService(S),
                              total_duration |-> total_duration,
                              booking_date |-> booking_date,
                              booking_time |-> booking_time,
                              end_time |-> end_time]]
                     ELSE pending
       /\ last' = Last("confirm_booking", free, 0, booking_date, booking_time,
                       end_time, NoOld)
       /\ UNCHANGED <<bookings, blocked, services, availability, pc, now, intake_forms>>

\* The booking row intake_form inserts; uid is session['customer_id'] when
\* the customer is logged in, else NoUser.
PendingBooking(p, uid) ==
    Booking(p.service_id, uid, p.booking_date, p.booking_time, p.end_time)

\* Faulty variant: the POST trusts the interval accepted by confirm_booking.
intake_form_trusting(c, uid, dob_ok) ==
    /\ pc[c] = "idle"
    /\ LET p == pending[c]
       IN IF p = NoPending \/ ~dob_ok
          THEN /\ last' = Last("intake_form", FALSE, 0, p.booking_date,
                               p.booking_time, p.end_time, NoOld)
               /\ UNCHANGED <<bookings, pending, intake_forms>>
          ELSE /\ bookings' = Append(bookings, PendingBooking(p, uid))
               /\ intake_forms' = intake_forms + 1
               /\ pending' = [pending EXCEPT ![c] = NoPending]
               /\ last' = Last("intake_form", TRUE, Len(bookings) + 1,
                               p.booking_date, p.booking_time, p.end_time, NoOld)
    /\ UNCHANGED <<blocked, services, availability, pc, now>>

\* POST /book/intake handled without another request in between.  The intake
\* row is added and flushed before the availability query; the rollback of
\* the refusal discards it, the commit stores it with the booking.
intake_form(c, uid, dob_ok) ==
    /\ pc[c] = "idle"
    /\ LET p == pending[c]
           free == check_slot_available(bookings, blocked, p.booking_date,
                                        p.booking_time, p.end_time)
       IN IF p = NoPending \/ ~dob_ok
          THEN /\ last' = Last("intake_form", FALSE, 0, p.booking_date,
                               p.booking_time, p.end_time, NoOld)
               /\ UNCHANGED <<bookings, pending, intake_forms>>
          ELSE IF ~free
          THEN /\ pending' = [pending EXCEPT ![c] = NoPending]
               /\ last' = Last("intake_form", FALSE, 0, p.booking_date,
                               p.booking_time, p.end_time, NoOld)
               /\ UNCHANGED <<bookings, intake_forms>>
          ELSE /\ bookings' = Append(bookings, PendingBooking(p, uid))
               /\ intake_forms' = intake_forms + 1
               /\ pending' = [pending EXCEPT ![c] = NoPending]
               /\ last' = Last("intake_form", TRUE, Len(bookings) + 1,
                               p.booking_date, p.booking_time, p.end_time, NoOld)
    /\ UNCHANGED <<blocked, services, availability, pc, now>>

\* The same POST as two steps of a request that runs beside other requests:
\* the availability query, then the insert and commit.
intake_validate(c) ==
    /\ pc[c] = "idle"
    /\ pending[c] # NoPending
    /\ LET p == pending[c]
           free == check_slot_available(bookings, blocked, p.booking_date,
                                        p.booking_time, p.end_time)
       IN /\ pc' = [pc EXCEPT ![c] = IF free THEN "checked" ELSE "idle"]
          /\ pending' = IF free THEN pending
                        ELSE [pending EXCEPT ![c] = NoPending]
          /\ last' = Last("intake_validate", free, 0, p.booking_date,
                          p.booking_time, p.end_time, NoOld)
    /\ UNCHANGED <<bookings, blocked, services, availability, now, intake_forms>>

intake_commit(c, uid) ==
    /\ pc[c] = "checked"
    /\ LET p == pending[c]
       IN /\ bookings' = Append(bookings, PendingBooking(p, uid))
          /\ last' = Last("intake_commit", TRUE, Len(bookings) + 1,
                          p.booking_date, p.booking_time, p.end_time, NoOld)
    /\ intake_forms' = intake_forms + 1
    /\ pending' = [pending EXCEPT ![c] = NoPending]
    /\ pc' = [pc EXCEPT ![c] = "idle"]
    /\ UNCHANGED <<blocked, services, availability, now>>

\* ------------------------------------------------------- staff operations
add_booking(service_id, booking_date, booking_time) ==
    LET start_minutes == time_to_minutes(booking_time)
        end_minutes == start_minutes + services[service_id]
        end_time == Pad2(end_minutes \div 60) \o <<Colon>> \o Pad2(end_minutes % 60)
    IN /\ bookings' = Append(bookings,
             Booking(service_id, NoUser, booking_date, booking_time, end_time))
       /\ last' = Last("add_booking", TRUE, Len(bookings) + 1, booking_date,
                       booking_time, end_time, NoOld)
       /\ UNCHANGED <<blocked, services, availability, pending, pc, now, intake_forms>>

SetStatus(op, booking_id, status) ==
    /\ booking_id \in Ids(bookings)
    /\ bookings' = [bookings EXCEPT ![booking_id].status = status]
    /\ last' = Last(op, TRUE, booking_id, 0, NoneStr, NoneStr, NoOld)
    /\ UNCHANGED <<blocked, services, availability, pending, pc, now, intake_forms>>

cancel_booking(booking_id) == SetStatus("cancel_booking", booking_id, "cancelled")
mark_no_show(booking_id) == SetStatus("mark_no_show", booking_id, "no_show")
undo_no_show(booking_id) == SetStatus("undo_no_show", booking_id, "confirmed")
mark_complete(booking_id) == SetStatus("mark_complete", booking_id, "completed")

\* Faulty variant: a reduction is checked against bookings and blocks too.
extend_booking_checking_reduce(booking_id, extend_minutes) ==
    /\ booking_id \in Ids(bookings)
    /\ LET booking == bookings[booking_id]
           current_start_mins == time_to_minutes(booking.booking_time)
           current_end_mins == time_to_minutes(booking.end_time)
           current_duration == current_end_mins - current_start_mins
           new_duration == current_duration + extend_minutes
           new_end_mins == current_start_mins + new_duration
           new_end_time == minutes_to_time(new_end_mins)
           rejected ==
               \/ extend_minutes = 0
               \/ new_duration < MinDuration
               \/ new_duration > MaxDuration
               \/ ExtendConflict(bookings, booking_id, new_end_time)
               \/ is_time_blocked(blocked, booking.booking_date,
                                  booking.end_time, new_end_time)
       IN /\ bookings' = IF rejected THEN bookings
                         ELSE [bookings EXCEPT ![booking_id].end_time = new_end_time]
          /\ last' = IF rejected THEN Rejected("extend_booking", booking_id)
                      ELSE Last("extend_booking", TRUE, booking_id,
                                booking.booking_date, booking.booking_time,
                                new_end_time, SlotOf(booking))
    /\ UNCHANGED <<blocked, services, availability, pending, pc, now, intake_forms>>

\* Faulty variant: the upper limit of the duration is not checked.
extend_booking_unbounded(booking_id, extend_minutes) ==
    /\ booking_id \in Ids(bookings)
    /\ LET booking == bookings[booking_id]
           current_start_mins == time_to_minutes(booking.booking_time)
           current_end_mins == time_to_minutes(booking.end_time)
           current_duration == current_end_mins - current_start_mins
           new_duration == current_duration + extend_minutes
           new_end_mins == current_start_mins + new_duration
           new_end_time == minutes_to_time(new_end_mins)
           rejected ==
               \/ extend_minutes = 0
               \/ new_duration < MinDuration
               \/ /\ extend_minutes > 0
                  /\ \/ ExtendConflict(bookings, booking_id, new_end_time)
                     \/ is_time_blocked(blocked, booking.booking_date,
                                        booking.end_time, new_end_time)
       IN /\ bookings' = IF rejected THEN bookings
                         ELSE [bookings EXCEPT ![booking_id].end_time = new_end_time]
          /\ last' = IF rejected THEN Rejected("extend_booking", booking_id)
                      ELSE Last("extend_booking", TRUE, booking_id,
                                booking.booking_date, booking.booking_time,
                                new_end_time, SlotOf(booking))
    /\ UNCHANGED <<blocked, services, availability, pending, pc, now, intake_forms>>

extend_booking(booking_id, extend_minutes) ==
    /\ booking_id \in Ids(bookings)
    /\ LET booking == bookings[booking_id]
           current_start_mins == time_to_minutes(booking.booking_time)
           current_end_mins == time_to_minutes(booking.end_time)
           current_duration == current_end_mins - current_start_mins
           new_duration == current_duration + extend_minutes
           new_end_mins == current_start_mins + new_duration
           new_end_time == minutes_to_time(new_end_mins)
           rejected ==
               \/ extend_minutes = 0
               \/ new_duration < MinDuration
               \/ new_duration > MaxDuration
               \/ /\ extend_minutes > 0
                  /\ \/ ExtendConflict(bookings, booking_id, new_end_time)
                     \/ is_time_blocked(blocked, booking.booking_date,
                                        booking.end_time, new_end_time)
       IN /\ bookings' = IF rejected THEN bookings
                         ELSE [bookings EXCEPT ![booking_id].end_time = new_end_time]
          /\ last' = IF rejected THEN Rejected("extend_booking", booking_id)
                      ELSE Last("extend_booking", TRUE, booking_id,
                                booking.booking_date, booking.booking_time,
                                new_end_time, SlotOf(booking))
    /\ UNCHANGED <<blocked, services, availability, pending, pc, now, intake_forms>>

\* New end time of a move: the service's present duration after new_time.
MoveEnd(svc, booking, new_time) ==
    LET duration == IF booking.service_id \in DOMAIN svc
                    THEN svc[booking.service_id] ELSE FallbackDuration
        start_mins == time_to_minutes(new_time)
        end_mins == start_mins + duration
    IN minutes_to_time(end_mins)

MoveRejected(bks, blks, svc, booking_id, new_date, new_time) ==
    LET new_end_time == MoveEnd(svc, bks[booking_id], new_time)
    IN \/ MoveConflict(bks, booking_id, new_date, new_time, new_end_time)
       \/ is_time_blocked(blks, new_date, new_time, new_end_time)

move_booking(booking_id, new_date, new_time) ==
    /\ booking_id \in Ids(bookings)
    /\ LET booking == bookings[booking_id]
           new_end_time == MoveEnd(services, booking, new_time)
           rejected == MoveRejected(bookings, blocked, services, booking_id,
                                    new_date, new_time)
       IN /\ bookings' = IF rejected THEN bookings
                         ELSE [bookings EXCEPT
                                 ![booking_id].booking_date = new_date,
                                 ![booking_id].booking_time = new_time,
                                 ![booking_id].end_time = new_end_time]
          /\ last' = IF rejected THEN Rejected("move_booking", booking_id)
                     ELSE Last("move_booking", TRUE, booking_id, new_date,
                               new_time, new_end_time, SlotOf(booking))
    /\ UNCHANGED <<blocked, services, availability, pending, pc, now, intake_forms>>

\* ---------------------------------------------------- customer operations
\* booking start minus now, in minutes
MinutesUntil(b) ==
    (b.booking_date - now.today) * 1440 + time_to_minutes(b.booking_time) - now.mins

\* Faulty variant: the booking is looked up by its id alone.
CanModifyAnyOwner(user_id, booking_id) ==
    /\ booking_id \in Ids(bookings)
    /\ MinutesUntil(bookings[booking_id]) > ModifyHours * 60

CanModify(user_id, booking_id) ==
    /\ booking_id \in Ids(bookings)
    /\ bookings[booking_id].user_id = user_id
    /\ MinutesUntil(bookings[booking_id]) > ModifyHours * 60

customer_reschedule(user_id, booking_id, new_booking_date, new_time) ==
    /\ IF ~CanModify(user_id, booking_id)
       THEN /\ last' = Rejected("customer_reschedule", booking_id)
            /\ UNCHANGED bookings
       ELSE LET booking == bookings[booking_id]
                start_minutes == time_to_minutes(new_time)
                end_minutes == start_minutes + services[booking.service_id]
                new_end_time == Pad2(end_minutes \div 60) \o <<Colon>>
                                \o Pad2(end_minutes % 60)
            IN /\ bookings' = [bookings EXCEPT
                                 ![booking_id].booking_date = new_booking_date,
                                 ![booking_id].booking_time = new_time,
                                 ![booking_id].end_time = new_end_time,
                                 ![booking_id].reminder_sent = FALSE]
               /\ last' = Last("customer_reschedule", TRUE, booking_id,
                               new_booking_date, new_time, new_end_time,
                               SlotOf(booking))
    /\ UNCHANGED <<blocked, services, availability, pending, pc, now, intake_forms>>

customer_cancel(user_id, booking_id) ==
    /\ IF ~CanModify(user_id, booking_id)
       THEN /\ last' = Rejected("customer_cancel", booking_id)
            /\ UNCHANGED bookings
       ELSE /\ bookings' = [bookings EXCEPT ![booking_id].status = "cancelled"]
            /\ last' = Last("customer_cancel", TRUE, booking_id, 0, NoneStr,
                            NoneStr, NoOld)
    /\ UNCHANGED <<blocked, services, availability, pending, pc, now, intake_forms>>

\* ---------------------------------------------------------------- reminders
\* The bookings the reminder job mails at the clock: confirmed, no reminder
\* sent yet, starting within the next reminder_hours_before = 24 hours.
ReminderDue(bks) ==
    {i \in Ids(bks) : /\ bks[i].status = "confirmed"
                      /\ ~bks[i].reminder_sent
                      /\ MinutesUntil(bks[i]) > 0
                      /\ MinutesUntil(bks[i]) <= ReminderHours * 60}

\* One run of the job; `sent` are the bookings whose mail went out.
check_and_send_reminders(sent) ==
    /\ sent \subseteq ReminderDue(bookings)
    /\ sent # {}
    /\ bookings' = [i \in Ids(bookings) |->
                      IF i \in sent THEN [bookings[i] EXCEPT !.reminder_sent = TRUE]
                      ELSE bookings[i]]
    /\ last' = Last("check_and_send_reminders", TRUE, Cardinality(sent), 0,
                    NoneStr, NoneStr, NoOld)
    /\ UNCHANGED <<blocked, services, availability, pending, pc, now, intake_forms>>

\* -------------------------------------------------------------- CSV import
\* A row of the file: fields_ok says the required fields are present, the
\* service name is known and the date parses; booking_time is the raw text.
Row(ok, sid, d, t) ==
    [fields_ok |-> ok, service_id |-> sid, booking_date |-> d, booking_time |-> t]

HasColon(s) == \E i \in 1..Len(s) : s[i] = Colon

\* datetime.strptime(time_str, '%H:%M') succeeds
TimeFormatOK(s) ==
    /\ Cardinality({i \in 1..Len(s) : s[i] = Colon}) = 1
    /\ LET p == ColonAt(s)
       IN /\ p - 1 \in {1, 2}
          /\ Len(s) - p \in {1, 2}
          /\ IntOf(SubSeq(s, 1, p - 1)) <= 23
          /\ IntOf(SubSeq(s, p + 1, Len(s))) <= 59

NormalizeTime(s) == IF Len(s) = 4 /\ HasColon(s) THEN <<0>> \o s ELSE s

\* validate_csv_row: the booking to create, or a booking with service 0
\* when the row has errors.
NoRow == Booking(0, NoUser, 0, NoneStr, NoneStr)
validate_csv_row(bks, blks, svc, row) ==
    IF ~row.fields_ok THEN NoRow
    ELSE LET time_str == NormalizeTime(row.booking_time)
         IN IF ~TimeFormatOK(time_str) THEN NoRow
            ELSE LET start_mins == time_to_minutes(time_str)
                     end_mins == start_mins + svc[row.service_id]
                     end_time == minutes_to_time(end_mins)
                 IN IF ~check_slot_available(bks, blks, row.booking_date,
                                             time_str, end_time)
                    THEN NoRow
                    ELSE Booking(row.service_id, NoUser, row.booking_date,
                                 time_str, end_time)

\* Faulty variant: every row is validated against the bookings stored before
\* the import began, not against the rows added to the session since.
RECURSIVE ImportLoopStale(_, _, _, _, _)
ImportLoopStale(bks, blks, svc, rows, res) ==
    IF Len(rows) = 0 THEN [bks |-> bks, res |-> res]
    ELSE LET added == Cardinality({k \in 1..Len(res) : res[k]})
             stored == SubSeq(bks, 1, Len(bks) - added)
             validated == validate_csv_row(stored, blks, svc, Head(rows))
         IN IF validated = NoRow
            THEN ImportLoopStale(bks, blks, svc, Tail(rows), Append(res, FALSE))
            ELSE ImportLoopStale(Append(bks, validated), blks, svc, Tail(rows),
                                 Append(res, TRUE))

\* The loop of import_confirm.  Each row's query flushes the rows added to the
\* session before it (the session autoflushes), so it reads them too.
RECURSIVE ImportLoop(_, _, _, _, _)
ImportLoop(bks, blks, svc, rows, res) ==
    IF Len(rows) = 0 THEN [bks |-> bks, res |-> res]
    ELSE LET validated == validate_csv_row(bks, blks, svc, Head(rows))
         IN IF validated = NoRow
            THEN ImportLoop(bks, blks, svc, Tail(rows), Append(res, FALSE))
            ELSE ImportLoop(Append(bks, validated), blks, svc, Tail(rows),
                            Append(res, TRUE))

import_confirm(file) ==
    LET out == ImportLoop(bookings, blocked, services, file, << >>)
    IN /\ Len(file) > 0
       /\ bookings' = out.bks
       /\ last' = [Last("import_confirm", TRUE, Len(bookings), 0, NoneStr,
                        NoneStr, NoOld) EXCEPT !.file = file, !.res = out.res]
       /\ UNCHANGED <<blocked, services, availability, pending, pc, now, intake_forms>>

\* ------------------------------------------------------------ blocked times
AddBlock(op, rows) ==
    /\ blocked' = blocked \o rows
    /\ last' = Last(op, TRUE, Len(blocked) + Len(rows), 0, NoneStr, NoneStr, NoOld)
    /\ UNCHANGED <<bookings, services, availability, pending, pc, now, intake_forms>>

add_blocked_time_single(block_date, is_all_day, start_time, end_time) ==
    AddBlock("add_blocked_time",
        <<BlockedTime(block_date,
                      IF is_all_day THEN NoneStr ELSE start_time,
                      IF is_all_day THEN NoneStr ELSE end_time,
                      is_all_day, FALSE, -1)>>)

add_blocked_time_recurring(day_of_week, is_all_day, start_time, end_time) ==
    AddBlock("add_blocked_time",
        <<BlockedTime(now.today,
                      IF is_all_day THEN NoneStr ELSE start_time,
                      IF is_all_day THEN NoneStr ELSE end_time,
                      is_all_day, TRUE, day_of_week)>>)

\* Faulty variant: the last day of the range gets no row.
RECURSIVE RangeRowsExclusive(_, _)
RangeRowsExclusive(current_date, end_date) ==
    IF current_date < end_date
    THEN <<BlockedTime(current_date, NoneStr, NoneStr, TRUE, FALSE, -1)>>
         \o RangeRowsExclusive(current_date + 1, end_date)
    ELSE << >>

RECURSIVE RangeRows(_, _)
RangeRows(current_date, end_date) ==
    IF current_date <= end_date
    THEN <<BlockedTime(current_date, NoneStr, NoneStr, TRUE, FALSE, -1)>>
         \o RangeRows(current_date + 1, end_date)
    ELSE << >>

add_blocked_time_range(start_date, end_date) ==
    AddBlock("add_blocked_time", RangeRows(start_date, end_date))

\* duration = 0 stands for the form value 'all_day' (block the rest of the day)
add_quick_blocked_time(block_date, start_time, duration) ==
    LET start_minutes == time_to_minutes(start_time)
        end_minutes == start_minutes + duration
        end_time == IF duration = 0 THEN <<2, 3, Colon, 5, 9>>
                    ELSE Pad2(end_minutes \div 60) \o <<Colon>> \o Pad2(end_minutes % 60)
    IN AddBlock("add_quick_blocked_time",
           <<BlockedTime(block_date, start_time, end_time, FALSE, FALSE, -1)>>)

delete_blocked_time(i) ==
    /\ i \in 1..Len(blocked)
    /\ blocked' = SubSeq(blocked, 1, i - 1) \o SubSeq(blocked, i + 1, Len(blocked))
    /\ last' = Last("delete_blocked_time", TRUE, i, 0, NoneStr, NoneStr, NoOld)
    /\ UNCHANGED <<bookings, services, availability, pending, pc, now, intake_forms>>


\* ------------------------------------------------- services, availability
add_availability(day, start, end) ==
    /\ availability' = Append(availability, Availability(day, start, end))
    /\ last' = Last("add_availability", TRUE, Len(availability) + 1, 0, NoneStr,
                    NoneStr, NoOld)
    /\ UNCHANGED <<bookings, blocked, services, pending, pc, now, intake_forms>>

\* The row stays in the table with is_active cleared.
delete_availability(avail_id) ==
    /\ avail_id \in 1..Len(availability)
    /\ availability' = [availability EXCEPT ![avail_id].is_active = FALSE]
    /\ last' = Last("delete_availability", TRUE, avail_id, 0, NoneStr, NoneStr,
                    NoOld)
    /\ UNCHANGED <<bookings, blocked, services, pending, pc, now, intake_forms>>

edit_service(service_id, duration_minutes) ==
    /\ service_id \in DOMAIN services
    /\ services' = [services EXCEPT ![service_id] = duration_minutes]
    /\ last' = Last("edit_service", TRUE, service_id, 0, NoneStr, NoneStr, NoOld)
    /\ UNCHANGED <<bookings, blocked, availability, pending, pc, now, intake_forms>>

\* GET /api/available-slots for the services S on date d; total_duration = 0
\* is the request without the parameter.  `res` is the list returned.
api_available_slots(S, total_duration, d) ==
    LET duration == IF total_duration = 0 THEN SumDurations(services, S)
                    ELSE total_duration
        slots == get_available_slots_for_duration(bookings, blocked,
                                                  availability, duration, d)
    IN /\ S # {}
       /\ last' = [Last("api_available_slots", TRUE, duration, d, NoneStr,
                        NoneStr, NoOld) EXCEPT !.res = slots]
       /\ UNCHANGED <<bookings, blocked, services, availability, pending, pc,
                      now, intake_forms>>

\* ---------------------------------------------------------- auto-completion
\* datetime.now(): the wall clock moves on between requests.
clock_advances(today, mins) ==
    /\ \/ today > now.today
       \/ (today = now.today /\ mins > now.mins)
    /\ now' = [today |-> today, mins |-> mins]
    /\ last' = Last("clock", TRUE, 0, 0, NoneStr, NoneStr, NoOld)
    /\ UNCHANGED <<bookings, blocked, services, availability, pending, pc,
                   intake_forms>>

\* Faulty variant: an appointment ending at the current minute is not yet past.
past_bookings_strict(bks, at) ==
    LET current_time == minutes_to_time(at.mins)
    IN {i \in Ids(bks) :
          /\ bks[i].status = "confirmed"
          /\ \/ bks[i].booking_date < at.today
             \/ /\ bks[i].booking_date = at.today
                /\ StrLt(bks[i].end_time, current_time)}

\* Faulty variant: the query does not leave out rows already completed.
past_bookings_again(bks, at) ==
    LET current_time == minutes_to_time(at.mins)
    IN {i \in Ids(bks) :
          /\ bks[i].status \in {"confirmed", "completed"}
          /\ \/ bks[i].booking_date < at.today
             \/ /\ bks[i].booking_date = at.today
                /\ StrLe(bks[i].end_time, current_time)}

\* The bookings one sweep at the clock `at` marks completed.
past_bookings(bks, at) ==
    LET current_time == minutes_to_time(at.mins)
    IN {i \in Ids(bks) :
          /\ bks[i].status = "confirmed"
          /\ \/ bks[i].booking_date < at.today
             \/ /\ bks[i].booking_date = at.today
                /\ StrLe(bks[i].end_time, current_time)}

\* One call of the sweep; `id` is the count it returns, and `old` holds the
\* count of the sweep before it when no other request came in between.
auto_complete_past_appointments ==
    LET done == past_bookings(bookings, now)
    IN /\ bookings' = [i \in Ids(bookings) |->
                         IF i \in done
                         THEN [bookings[i] EXCEPT !.status = "completed"]
                         ELSE bookings[i]]
       /\ last' = Last("auto_complete_past_appointments", TRUE,
                       Cardinality(done), 0, NoneStr, NoneStr,
                       IF last.op = "auto_complete_past_appointments"
                       THEN <<last.id>> ELSE NoOld)
       /\ UNCHANGED <<blocked, services, availability, pending, pc, now, intake_forms>>

\* -------------------------------------------------------------- read paths
\* The store after one call of the sweep at the clock `at`.
Swept(bks, at) ==
    [i \in Ids(bks) |-> IF i \in past_bookings(bks, at)
                        THEN [bks[i] EXCEPT !.status = "completed"]
                        ELSE bks[i]]

\* A page that lists bookings: the sweep, then the page's query.  `rows` are
\* the rows the query returns from the swept store, in id order (the ORDER BY
\* of the queries is not modelled); `id` is the count the sweep returned.
ReadBookings(op, rows) ==
    /\ bookings' = Swept(bookings, now)
    /\ last' = [Last(op, TRUE, Cardinality(past_bookings(bookings, now)), 0,
                     NoneStr, NoneStr, NoOld) EXCEPT !.res = rows]
    /\ UNCHANGED <<blocked, services, availability, pending, pc, now, intake_forms>>

\* the day view of the calendar for current_date
admin_calendar(current_date) ==
    ReadBookings("admin_calendar",
        SelectSeq(Swept(bookings, now), LAMBDA b :
            /\ b.booking_date = current_date
            /\ b.status \in {"confirmed", "no_show", "completed"}))

\* Faulty variant: the list is read without the sweep before it.
admin_bookings_unswept ==
    /\ last' = [Last("admin_bookings", TRUE, 0, 0, NoneStr, NoneStr, NoOld)
                  EXCEPT !.res = bookings]
    /\ UNCHANGED <<bookings, blocked, services, availability, pending, pc, now,
                   intake_forms>>

admin_bookings == ReadBookings("admin_bookings", Swept(bookings, now))

\* next_appointment: the user's first confirmed booking from today on
NextAppointment(bks, user_id, today) ==
    LET mine == {i \in Ids(bks) : /\ bks[i].user_id = user_id
                                  /\ bks[i].booking_date >= today
                                  /\ bks[i].status = "confirmed"}
        first == {i \in mine : \A j \in mine :
                     \/ bks[i].booking_date < bks[j].booking_date
                     \/ /\ bks[i].booking_date = bks[j].booking_date
                        /\ StrLe(bks[i].booking_time, bks[j].booking_time)}
    IN IF mine = {} THEN << >>
       ELSE <<bks[CHOOSE i \in first : \A j \in first : i <= j]>>

customer_dashboard(user_id) ==
    ReadBookings("customer_dashboard",
        NextAppointment(Swept(bookings, now), user_id, now.today))

customer_appointments(user_id) ==
    ReadBookings("customer_appointments",
        SelectSeq(Swept(bookings, now), LAMBDA b :
            /\ b.user_id = user_id
            /\ b.booking_date >= now.today
            /\ b.status = "confirmed"))

customer_history(user_id) ==
    ReadBookings("customer_history",
        SelectSeq(Swept(bookings, now), LAMBDA b :
            b.user_id = user_id /\ b.status \in {"completed", "no_show"}))

\* ------------------------------------------------------------------ inputs
StartTimes == {T(540), T(570), T(600)}
EarlyTimes == {T(540), T(570)}
ExtendSteps == {30, -30}
CsvRows == {Row(TRUE, 1, 1, T(540)), Row(TRUE, 1, 1, <<9, Colon, 3, 0>>),
            Row(FALSE, 1, 1, T(540)), Row(TRUE, 1, 1, <<2, 5, Colon, 0, 0>>)}
Files == UNION {[1..n -> CsvRows] : n \in 1..MaxRows}

\* --------------------------------------------------------------------- Init
\* The shop as staff configured it (two services, one window on each day),
\* before any booking or block exists.
Init ==
    /\ bookings = << >>
    /\ blocked = << >>
    /\ services = (1 :> 60 @@ 2 :> 30)
    /\ availability = <<Availability(1, T(540), T(660)), Availability(2, T(540), T(660))>>
    /\ pending = [c \in Clients |-> NoPending]
    /\ pc = [c \in Clients |-> "idle"]
    /\ now = [today |-> 0, mins |-> 0]
    /\ intake_forms = 0
    /\ last = Last("init", TRUE, 0, 0, NoneStr, NoneStr, NoOld)

Room == Len(bookings) < MaxBookings
BlockRoom == Len(blocked) < MaxBlocks

\* The customer who got the intake form posts it before anything else happens.
FormOpen == pending[1] # NoPending

\* --------------------------------------------------- core specification
\* The validated paths: public create, admin move, status changes, blocks.
CorePublic ==
    \/ (~FormOpen /\ Room /\ \E d \in Dates, t \in StartTimes : confirm_booking(1, {1}, d, t))
    \/ (FormOpen /\ intake_form(1, 1, TRUE))

CoreStaff ==
    \/ \E id \in Ids(bookings) : cancel_booking(id)
    \/ \E id \in Ids(bookings) : mark_no_show(id)
    \/ \E id \in Ids(bookings) : mark_complete(id)
    \/ \E id \in Ids(bookings), d \in Dates, t \in StartTimes : move_booking(id, d, t)
    \/ \E id \in Ids(bookings) : customer_cancel(1, id)

CoreBlocks ==
    \/ (BlockRoom /\ add_blocked_time_single(1, FALSE, T(570), T(600)))
    \/ (BlockRoom /\ add_blocked_time_recurring(weekday(2), FALSE, T(570), T(600)))
    \/ (BlockRoom /\ add_blocked_time_single(2, TRUE, NoneStr, NoneStr))
    \/ \E i \in 1..Len(blocked) : delete_blocked_time(i)

NextCore == CorePublic \/ (~FormOpen /\ (CoreStaff \/ CoreBlocks))

SpecCore == Init /\ [][NextCore]_vars

\* ---------------------------------------------- sequential specification
\* Every request that creates, moves, resizes or re-labels a booking, one
\* request at a time.
PublicStep ==
    \/ (~FormOpen /\ Room /\ \E t \in EarlyTimes : confirm_booking(1, {1}, 1, t))
    \/ (FormOpen /\ \E ok \in BOOLEAN : intake_form(1, 1, ok))

StaffStep ==
    \/ (Room /\ \E d \in Dates, t \in EarlyTimes : add_booking(1, d, t))
    \/ \E id \in Ids(bookings) : cancel_booking(id)
    \/ \E id \in Ids(bookings) : mark_no_show(id)
    \/ \E id \in Ids(bookings) : undo_no_show(id)
    \/ \E id \in Ids(bookings) : mark_complete(id)
    \/ \E id \in Ids(bookings), m \in ExtendSteps :
          /\ time_to_minutes(bookings[id].end_time) + m <= MaxEndMins
          /\ extend_booking(id, m)
    \/ \E id \in Ids(bookings), d \in Dates, t \in EarlyTimes : move_booking(id, d, t)

CustomerStep ==
    \/ \E id \in Ids(bookings), d \in Dates, t \in EarlyTimes :
          customer_reschedule(1, id, d, t)
    \/ \E id \in Ids(bookings) : customer_cancel(1, id)

ImportStep ==
    \E file \in Files : Len(bookings) + Len(file) <= MaxBookings /\ import_confirm(file)

Next == PublicStep \/ (~FormOpen /\ (StaffStep \/ CustomerStep \/ ImportStep))

Spec == Init /\ [][Next]_vars

\* ------------------------------------------- the writes that do not validate
\* Staff manual create and customer reschedule beside the validated public
\* create, with blocks of every shape.
DirectPublic ==
    \/ (~FormOpen /\ Room /\ \E d \in Dates, t \in EarlyTimes : confirm_booking(1, {1}, d, t))
    \/ (FormOpen /\ intake_form(1, 1, TRUE))

DirectWrites ==
    \/ (Room /\ \E d \in Dates, t \in EarlyTimes : add_booking(1, d, t))
    \/ \E id \in Ids(bookings), d \in Dates, t \in EarlyTimes :
          customer_reschedule(1, id, d, t)
    \/ \E id \in Ids(bookings) : mark_complete(id)
    \/ \E id \in Ids(bookings) : cancel_booking(id)

NextDirect == DirectPublic \/ (~FormOpen /\ (DirectWrites \/ CoreBlocks))

SpecDirect == Init /\ [][NextDirect]_vars

\* ------------------------------------------------- concurrent public posts
\* Two browser sessions past /book/confirm; their intake posts run side by
\* side, each as its availability query followed by its insert and commit.
NextRace ==
    \/ \E c \in Clients, d \in Dates, t \in StartTimes :
          pending[c] = NoPending /\ Room /\ confirm_booking(c, {1}, d, t)
    \/ \E c \in Clients : intake_validate(c)
    \/ \E c \in Clients : intake_commit(c, c)

SpecRace == Init /\ [][NextRace]_vars

\* -------------------------------------------------------------- CSV import
\* A store of at most MaxBookings - 1 bookings and one block, then files.
ImportRowSet ==
    {Row(TRUE, s, 1, t) : s \in Services, t \in {T(540), <<9, Colon, 3, 0>>}}
    \cup {Row(TRUE, 1, 2, T(540)), Row(FALSE, 1, 1, T(540)),
          Row(TRUE, 1, 1, <<2, 5, Colon, 0, 0>>)}
ImportFiles == UNION {[1..n -> ImportRowSet] : n \in 1..MaxRows}

NextImport ==
    \/ (Len(bookings) < MaxBookings - 1 /\ \E s \in Services, t \in StartTimes : add_booking(s, 1, t))
    \/ \E id \in Ids(bookings) : mark_complete(id)
    \/ (BlockRoom /\ add_blocked_time_single(1, FALSE, T(570), T(600)))
    \/ \E file \in ImportFiles :
          Len(bookings) < MaxBookings /\ import_confirm(file)

SpecImport == Init /\ [][NextImport]_vars

\* ================================================================ properties
\* Vocabulary of the properties: minute values, the half-open overlap of the
\* specification, and what occupies an interval of a date.
Mins(s) == time_to_minutes(s)
HalfOpenOverlap(aStart, aEnd, bStart, bEnd) == aStart < bEnd /\ aEnd > bStart

Grid == {540, 570, 600, 630, 660}
Intervals == {iv \in Grid \X Grid : iv[1] < iv[2]}

\* booking i lies on date d and overlaps [s, e)
Covers(bks, i, d, s, e) ==
    /\ bks[i].booking_date = d
    /\ HalfOpenOverlap(s, e, Mins(bks[i].booking_time), Mins(bks[i].end_time))

\* some booking other than `except` with a status in `sts` covers [s, e) on d
TakenBy(bks, sts, d, s, e, except) ==
    \E i \in Ids(bks) : i # except /\ bks[i].status \in sts /\ Covers(bks, i, d, s, e)

BlockApplies(blk, d) ==
    IF blk.is_recurring_weekly THEN blk.recurring_day_of_week = weekday(d)
    ELSE blk.date = d

DayBlocked(blks, d) ==
    \E i \in 1..Len(blks) : BlockApplies(blks[i], d) /\ blks[i].is_all_day

TimedBlockHits(blks, d, s, e) ==
    \E i \in 1..Len(blks) :
        /\ BlockApplies(blks[i], d)
        /\ ~blks[i].is_all_day
        /\ HalfOpenOverlap(s, e, Mins(blks[i].start_time), Mins(blks[i].end_time))

BlockHits(blks, d, s, e) == DayBlocked(blks, d) \/ TimedBlockHits(blks, d, s, e)

SameDateOverlap(a, b) ==
    /\ a.booking_date = b.booking_date
    /\ HalfOpenOverlap(Mins(a.booking_time), Mins(a.end_time),
                       Mins(b.booking_time), Mins(b.end_time))

\* C1: no two distinct bookings of one date whose status is confirmed or
\* completed have overlapping half-open intervals, in any state the
\* sequential series of requests reaches.
C1_NoDoubleBooking ==
    \A i, j \in Ids(bookings) :
        (i < j /\ bookings[i].status \in Occupying /\ bookings[j].status \in Occupying)
            => ~SameDateOverlap(bookings[i], bookings[j])

\* C2: of two intake posts running side by side for overlapping intervals of
\* one date at most one commits: a booking just committed overlaps no other
\* booking of its date.
C2_AtMostOneCommitted ==
    last.op = "intake_commit" =>
        \A i \in Ids(bookings) \ {last.id} :
            ~SameDateOverlap(bookings[i], bookings[last.id])

\* C3: a staff manual booking whose interval overlaps a confirmed or completed
\* booking of that date, or a block that applies to the date, creates no
\* booking: a booking add_booking has just created overlaps neither.
C3_ManualCreateValidated ==
    last.op = "add_booking" =>
        /\ ~TakenBy(bookings, Occupying, last.date, Mins(last.start), Mins(last.end_), last.id)
        /\ ~BlockHits(blocked, last.date, Mins(last.start), Mins(last.end_))

\* C4: a customer reschedule onto an interval that overlaps another confirmed
\* or completed booking, or a block that applies to the new date, is rejected
\* and the booking keeps its slot: a reschedule that went through overlaps
\* neither.
C4_RescheduleValidated ==
    (last.op = "customer_reschedule" /\ last.ok) =>
        /\ ~TakenBy(bookings, Occupying, last.date, Mins(last.start), Mins(last.end_), last.id)
        /\ ~BlockHits(blocked, last.date, Mins(last.start), Mins(last.end_))

\* C5: check_slot_available rejects every candidate interval that overlaps a
\* completed booking of that date, as it does for a confirmed one.
C5_CompletedRejected ==
    \A d \in Dates, iv \in Intervals :
        TakenBy(bookings, {"completed"}, d, iv[1], iv[2], 0)
            => ~check_slot_available(bookings, blocked, d, T(iv[1]), T(iv[2]))

\* ------------------------------------------------ no_show, cancelled (C6, C7)
\* Start minutes the slot generators walk over on date d for a duration.
WindowStarts(avail, d, duration) ==
    {m \in Grid : \E k \in 1..Len(avail) :
        /\ avail[k].day_of_week = weekday(d)
        /\ avail[k].is_active
        /\ m >= Mins(avail[k].start_time)
        /\ (m - Mins(avail[k].start_time)) % SlotStride = 0
        /\ m + duration <= Mins(avail[k].end_time)}

Offered(slots) == {Mins(slots[k].start) : k \in 1..Len(slots)}

MoveTimes == {T(540), T(570), T(600)}

\* the interval [s, e) on d is free of every block and of every booking,
\* other than `except`, whose status is in sts
FreeOf(bks, blks, sts, d, s, e, except) ==
    ~BlockHits(blks, d, s, e) /\ ~TakenBy(bks, sts, d, s, e, except)

\* C6 as claimed: a no_show booking still occupies its slot, so a public
\* booking that went through overlaps no no_show booking, and neither does
\* an admin move that went through.
C6_NoShowOccupies ==
    (last.op \in {"intake_form", "move_booking"} /\ last.ok) =>
        ~TakenBy(bookings, {"no_show"}, last.date, Mins(last.start),
                 Mins(last.end_), last.id)

\* C6 amended: a no_show booking does not occupy its slot.  A candidate
\* interval that no block hits and no confirmed or completed booking overlaps
\* is accepted by check_slot_available, and an admin move onto it succeeds,
\* whatever no_show bookings lie there.
C6_NoShowFrees ==
    /\ \A d \in Dates, iv \in Intervals :
          FreeOf(bookings, blocked, Occupying, d, iv[1], iv[2], 0)
              => check_slot_available(bookings, blocked, d, T(iv[1]), T(iv[2]))
    /\ \A id \in Ids(bookings), d \in Dates, t \in MoveTimes :
          FreeOf(bookings, blocked, Occupying, d, Mins(t),
                 Mins(MoveEnd(services, bookings[id], t)), id)
              => ~MoveRejected(bookings, blocked, services, id, d, t)

\* a public booking has just been created on top of a no_show booking
C6_Witness ==
    /\ last.op = "intake_form"
    /\ last.ok
    /\ TakenBy(bookings, {"no_show"}, last.date, Mins(last.start),
               Mins(last.end_), last.id)

\* C7: a cancelled booking never blocks.  Where only cancelled bookings
\* overlap a candidate interval and no block hits it, check_slot_available
\* accepts it, the admin move and the extension queries find no conflict, and
\* both slot generators and the move slot list offer it; right after
\* cancel_booking or customer_cancel the cancelled booking's own interval is
\* accepted again when nothing else occupies it.
C7_CancelledNeverBlocks ==
    LET Live == Statuses \ {"cancelled"}
    IN /\ \A d \in Dates, iv \in Intervals :
             FreeOf(bookings, blocked, Live, d, iv[1], iv[2], 0)
                 => check_slot_available(bookings, blocked, d, T(iv[1]), T(iv[2]))
       /\ \A id \in Ids(bookings), d \in Dates, t \in MoveTimes :
             FreeOf(bookings, blocked, Live, d, Mins(t),
                    Mins(MoveEnd(services, bookings[id], t)), id)
                 => ~MoveRejected(bookings, blocked, services, id, d, t)
       /\ \A id \in Ids(bookings), m \in Grid :
             LET b == bookings[id]
             IN (m > Mins(b.end_time)
                   /\ ~TakenBy(bookings, Live, b.booking_date, Mins(b.end_time), m, id))
                 => ~ExtendConflict(bookings, id, T(m))
       /\ \A d \in Dates, s \in Services :
             LET for_date == Offered(get_available_slots_for_date(
                     bookings, blocked, availability, services, s, d))
                 for_duration == Offered(get_available_slots_for_duration(
                     bookings, blocked, availability, services[s], d))
                 for_move == Offered(get_available_slots_for_move(
                     bookings, blocked, availability, d, services[s], 0))
             IN \A m \in WindowStarts(availability, d, services[s]) :
                    FreeOf(bookings, blocked, Live, d, m, m + services[s], 0)
                        => (m \in for_date /\ m \in for_duration /\ m \in for_move)
       /\ (last.op \in {"cancel_booking", "customer_cancel"} /\ last.ok) =>
             LET b == bookings[last.id]
             IN /\ b.status = "cancelled"
                /\ FreeOf(bookings, blocked, Live, b.booking_date,
                          Mins(b.booking_time), Mins(b.end_time), 0)
                       => check_slot_available(bookings, blocked, b.booking_date,
                                               b.booking_time, b.end_time)

\* a public booking has just been created on top of a cancelled booking
C7_Witness ==
    /\ last.op = "intake_form"
    /\ last.ok
    /\ TakenBy(bookings, {"cancelled"}, last.date, Mins(last.start),
               Mins(last.end_), last.id)

\* ------------------------------------------------------- half-open (C8)
\* C8: check_slot_available accepts [s, e) on d exactly when no block applies
\* and no confirmed booking [bs, be) of d has s < be and e > bs: an exact
\* duplicate of a confirmed booking is rejected, a candidate that starts at
\* its end or ends at its start is accepted.
C8_HalfOpen ==
    /\ \A d \in Dates, iv \in Intervals :
          check_slot_available(bookings, blocked, d, T(iv[1]), T(iv[2]))
              <=> /\ ~DayBlocked(blocked, d)
                  /\ ~TimedBlockHits(blocked, d, iv[1], iv[2])
                  /\ ~TakenBy(bookings, {"confirmed"}, d, iv[1], iv[2], 0)
    /\ \A i \in Ids(bookings) :
          bookings[i].status = "confirmed" =>
              ~check_slot_available(bookings, blocked, bookings[i].booking_date,
                                    bookings[i].booking_time, bookings[i].end_time)

\* a public booking has just been created that starts where a confirmed
\* booking of the same date ends
C8_Witness ==
    /\ last.op = "intake_form"
    /\ last.ok
    /\ \E i \in Ids(bookings) \ {last.id} :
          /\ bookings[i].status = "confirmed"
          /\ bookings[i].booking_date = last.date
          /\ bookings[i].end_time = last.start

\* ------------------------------------------------------ exclude self (C9)
\* C9: an admin move never counts the moved booking's own slot.  A move of A
\* onto an interval that no block hits and no other confirmed or completed
\* booking overlaps succeeds, and the move slot list asked with
\* exclude_booking = A offers every start of the day's windows whose interval
\* is free in that sense.
C9_ExcludeSelf ==
    \A id \in Ids(bookings), d \in Dates :
        LET duration == services[bookings[id].service_id]
        IN /\ \A t \in MoveTimes :
                 FreeOf(bookings, blocked, Occupying, d, Mins(t),
                        Mins(MoveEnd(services, bookings[id], t)), id)
                     => ~MoveRejected(bookings, blocked, services, id, d, t)
           /\ LET for_move == Offered(get_available_slots_for_move(
                      bookings, blocked, availability, d, duration, id))
              IN \A m \in WindowStarts(availability, d, duration) :
                     FreeOf(bookings, blocked, Occupying, d, m, m + duration, id)
                         => m \in for_move

\* an occupying booking has just been moved onto an interval that overlaps
\* the slot it held before, while another booking is in the store
C9_Witness ==
    /\ last.op = "move_booking"
    /\ last.ok
    /\ bookings[last.id].status \in Occupying
    /\ Len(bookings) > 1
    /\ last.old[1] = last.date
    /\ last.old[2] # last.start
    /\ HalfOpenOverlap(Mins(last.start), Mins(last.end_),
                       Mins(last.old[2]), Mins(last.old[3]))

\* ------------------------------------------------------------- import (C10)
RowFormatOK(r) == r.fields_ok /\ TimeFormatOK(NormalizeTime(r.booking_time))
RowStart(r) == Mins(NormalizeTime(r.booking_time))
RowEnd(r) == RowStart(r) + services[r.service_id]
RowsOverlap(a, b) ==
    /\ a.booking_date = b.booking_date
    /\ HalfOpenOverlap(RowStart(a), RowEnd(a), RowStart(b), RowEnd(b))

\* the bookings stored before the import that `last` describes
StoredBefore == SubSeq(bookings, 1, last.id)

\* row r passes the format checks and conflicts with nothing stored before
\* the import
RowAdmissible(r) ==
    /\ RowFormatOK(r)
    /\ FreeOf(StoredBefore, blocked, {"confirmed"}, r.booking_date,
              RowStart(r), RowEnd(r), 0)

\* C10: the import validates each row against the stored bookings and the
\* rows of the file accepted before it.  No two bookings one import creates
\* overlap; of two overlapping admissible rows the first, when no accepted
\* earlier row overlaps it, is imported and the second is rejected; and a
\* row is imported exactly when it is admissible and overlaps no accepted
\* earlier row.
C10_ImportAccumulates ==
    last.op = "import_confirm" =>
        LET file == last.file
            res == last.res
            Clear(i) == \A k \in 1..(i - 1) : res[k] => ~RowsOverlap(file[k], file[i])
        IN /\ Len(res) = Len(file)
           /\ Len(bookings) = last.id + Cardinality({k \in 1..Len(res) : res[k]})
           /\ \A i, j \in (last.id + 1)..Len(bookings) :
                 i < j => ~SameDateOverlap(bookings[i], bookings[j])
           /\ \A i, j \in 1..Len(file) :
                 (/\ i < j
                  /\ RowAdmissible(file[i])
                  /\ RowAdmissible(file[j])
                  /\ RowsOverlap(file[i], file[j])
                  /\ Clear(i))
                     => (res[i] /\ ~res[j])
           /\ \A i \in 1..Len(file) :
                 res[i] <=> (RowAdmissible(file[i]) /\ Clear(i))

\* an import of two overlapping admissible rows took the first and refused
\* the second
C10_Witness ==
    /\ last.op = "import_confirm"
    /\ Len(last.file) = 2
    /\ RowAdmissible(last.file[1])
    /\ RowAdmissible(last.file[2])
    /\ RowsOverlap(last.file[1], last.file[2])
    /\ last.res = <<TRUE, FALSE>>
    /\ Len(bookings) = last.id + 1

\* ------------------------------------------------- blocks specification
\* Staff edit blocks and working hours around manual bookings; customers ask
\* for the slots of a date.
BlockDays == {0, 1}
AllDates == {0, 1, 2}
SlotDurations == {30, 45, 60}

BlockEdits ==
    \/ \E d \in Dates, a \in BOOLEAN :
          Len(blocked) < MaxBlockRows /\ add_blocked_time_single(d, a, T(570), T(600))
    \/ \E w \in BlockDays, a \in BOOLEAN :
          Len(blocked) < MaxBlockRows /\ add_blocked_time_recurring(w, a, T(570), T(600))
    \/ \E d \in Dates, e \in Dates :
          /\ d <= e
          /\ Len(blocked) + (e - d + 1) <= MaxBlockRows
          /\ add_blocked_time_range(d, e)
    \/ \E m \in {0, 30} :
          Len(blocked) < MaxBlockRows /\ add_quick_blocked_time(1, T(600), m)
    \/ \E i \in 1..Len(blocked) : delete_blocked_time(i)

WindowEdits ==
    \/ (Len(availability) < MaxWindows /\ add_availability(0, T(540), T(720)))
    \/ delete_availability(Len(availability))

NextBlocks ==
    \/ BlockEdits
    \/ WindowEdits
    \/ (Room /\ \E d \in BlockDays : add_booking(1, d, T(540)))
    \/ \E d \in AllDates, total \in {0, 45} : api_available_slots({1}, total, d)

SpecBlocks == Init /\ [][NextBlocks]_vars

\* ---------------------------------------------------- day blocks (C11, C12)
HasWindow(avail, d) ==
    \E k \in 1..Len(avail) : avail[k].day_of_week = weekday(d) /\ avail[k].is_active

\* C11: on a date with an all-day block (of that date, or recurring on its
\* weekday) each of the three slot generators returns the empty list, for
\* every service, duration and excluded booking, whatever windows and
\* bookings there are; and so does the slots request just answered.
C11_DayBlockEmptiesSlots ==
    /\ \A d \in AllDates :
          DayBlocked(blocked, d) =>
              /\ \A s \in Services :
                    get_available_slots_for_date(bookings, blocked, availability,
                                                 services, s, d) = << >>
              /\ \A dur \in SlotDurations :
                    /\ get_available_slots_for_duration(bookings, blocked,
                                                        availability, dur, d) = << >>
                    /\ \A ex \in 0..Len(bookings) :
                          get_available_slots_for_move(bookings, blocked,
                                                       availability, d, dur, ex) = << >>
    /\ (last.op = "api_available_slots" /\ DayBlocked(blocked, last.date))
          => last.res = << >>

\* slots were asked for a day-blocked date that has an active window
C11_Witness ==
    /\ last.op = "api_available_slots"
    /\ DayBlocked(blocked, last.date)
    /\ HasWindow(availability, last.date)
    /\ \E i \in 1..Len(blocked) :
          blocked[i].is_recurring_weekly /\ blocked[i].is_all_day
    /\ last.res = << >>

\* C12: the validator rejects every interval of a day-blocked date, whatever
\* bookings there are, and a block rejects an interval only when it applies
\* to the date: an all-day block of another date, a recurring block of
\* another weekday and the date stored with a recurring block reject nothing.
C12_DayBlockRejectsAll ==
    \A d \in AllDates, iv \in Intervals :
        /\ DayBlocked(blocked, d) =>
              /\ is_time_blocked(blocked, d, T(iv[1]), T(iv[2]))
              /\ ~check_slot_available(bookings, blocked, d, T(iv[1]), T(iv[2]))
        /\ is_time_blocked(blocked, d, T(iv[1]), T(iv[2]))
              => BlockHits(blocked, d, iv[1], iv[2])

\* a recurring all-day block is stored with a date of another weekday: that
\* date stays open while a date of the block's weekday is rejected
C12_Witness ==
    \E i \in 1..Len(blocked) :
        /\ blocked[i].is_recurring_weekly
        /\ blocked[i].is_all_day
        /\ weekday(blocked[i].date) # blocked[i].recurring_day_of_week
        /\ ~is_time_blocked(blocked, blocked[i].date, T(540), T(600))
        /\ \E d \in AllDates :
              /\ weekday(d) = blocked[i].recurring_day_of_week
              /\ ~check_slot_available(bookings, blocked, d, T(540), T(600))

\* ------------------------------------------------------ slot count (C13)
\* The slots request just answered was for 45 minutes on a date whose weekday
\* has the single active window 09:00-12:00, with no booking on the date and
\* no block that applies to it.
C13_Case ==
    /\ last.op = "api_available_slots"
    /\ last.id = 45
    /\ \E k \in 1..Len(availability) :
          /\ availability[k].day_of_week = weekday(last.date)
          /\ availability[k].is_active
          /\ availability[k].start_time = T(540)
          /\ availability[k].end_time = T(720)
          /\ \A j \in 1..Len(availability) :
                (availability[j].day_of_week = weekday(last.date)
                   /\ availability[j].is_active) => j = k
    /\ \A i \in Ids(bookings) : bookings[i].booking_date # last.date
    /\ \A i \in 1..Len(blocked) : ~BlockApplies(blocked[i], last.date)

\* C13 as claimed: the request returns exactly 7 slots, the first starting at
\* 09:00 and the last at 11:15.
C13_SevenSlots ==
    C13_Case =>
        /\ Len(last.res) = 7
        /\ last.res[1].start = T(540)
        /\ last.res[Len(last.res)].start = T(675)

\* C13 amended: the request returns exactly 5 slots of 45 minutes, starting
\* at 09:00, 09:30, 10:00, 10:30 and 11:00.
C13_FiveSlots ==
    C13_Case =>
        last.res = <<[start |-> T(540), end |-> T(585)],
                     [start |-> T(570), end |-> T(615)],
                     [start |-> T(600), end |-> T(645)],
                     [start |-> T(630), end |-> T(675)],
                     [start |-> T(660), end |-> T(705)]>>

C13_Witness == C13_Case /\ Len(last.res) = 5

\* ---------------------------------------------- lifecycle specification
\* Customers book, time passes, staff and customers change statuses and the
\* read paths run the sweep.
LifeTimes == {T(540), T(1379)}
ClockDays == {1, 2}
ClockMins == {600, 720}

LifePublic ==
    \/ (~FormOpen /\ Room /\ \E d \in Dates, t \in LifeTimes : confirm_booking(1, {1}, d, t))
    \/ (FormOpen /\ intake_form(1, 1, TRUE))

LifeStatus ==
    \/ \E id \in Ids(bookings) : cancel_booking(id)
    \/ \E id \in Ids(bookings) : mark_no_show(id)
    \/ \E id \in Ids(bookings) : undo_no_show(id)
    \/ \E id \in Ids(bookings) : mark_complete(id)
    \/ \E id \in Ids(bookings) : customer_cancel(1, id)

NextLife ==
    \/ LifePublic
    \/ (~FormOpen /\ LifeStatus)
    \/ (~FormOpen /\ auto_complete_past_appointments)
    \/ (~FormOpen /\ \E d \in ClockDays, m \in ClockMins : clock_advances(d, m))

SpecLife == Init /\ [][NextLife]_vars

\* ------------------------------------------------------- sweep (C14, C15)
SweepOp == "auto_complete_past_appointments"

\* booking i is confirmed and its end has passed at the clock
Due(i) ==
    /\ bookings[i].status = "confirmed"
    /\ \/ bookings[i].booking_date < now.today
       \/ (bookings[i].booking_date = now.today /\ Mins(bookings[i].end_time) <= now.mins)

\* C14: one sweep turns exactly the confirmed bookings whose date is before
\* today, or is today with end <= the current time, to completed; every
\* other booking and every other field stays as it was, and the count
\* returned is the number of bookings changed.
C14_SweepExact ==
    [][last'.op = SweepOp =>
          /\ Len(bookings') = Len(bookings)
          /\ \A i \in Ids(bookings) :
                bookings'[i] = IF Due(i)
                               THEN [bookings[i] EXCEPT !.status = "completed"]
                               ELSE bookings[i]
          /\ last'.id = Cardinality({i \in Ids(bookings) : Due(i)})
          /\ UNCHANGED <<blocked, services, availability, pending, now, intake_forms>>]_vars

\* a sweep at 12:00 has completed a booking and left today's confirmed
\* booking that ends at 23:59 confirmed
C14_Witness ==
    /\ last.op = SweepOp
    /\ last.id > 0
    /\ now.mins = 720
    /\ \E i \in Ids(bookings) :
          /\ bookings[i].status = "confirmed"
          /\ bookings[i].booking_date = now.today
          /\ bookings[i].end_time = T(1439)

\* C15: a sweep that directly follows a sweep, at the same clock, changes no
\* booking and returns 0.
C15_SweepIdempotent ==
    [][(last.op = SweepOp /\ last'.op = SweepOp) =>
          /\ bookings' = bookings
          /\ last'.id = 0]_vars

\* a sweep that completed a booking was followed directly by a second sweep
C15_Witness ==
    /\ last.op = SweepOp
    /\ last.old # NoOld
    /\ last.old[1] > 0
    /\ last.id = 0

\* ------------------------------------------- status transitions (C16-C18)
\* C16: cancellation is irreversible: a booking that is cancelled is still
\* cancelled after any request.
C16_CancelledStays ==
    [][\A i \in Ids(bookings) :
          bookings[i].status = "cancelled" => bookings'[i].status = "cancelled"]_vars

\* C17: completion is irreversible: a booking that is completed is still
\* completed after any request.
C17_CompletedStays ==
    [][\A i \in Ids(bookings) :
          bookings[i].status = "completed" => bookings'[i].status = "completed"]_vars

\* C18: every status is one of the four; a booking enters no_show only from
\* confirmed and leaves it only to confirmed, by undo_no_show; mark_no_show
\* on a booking that is not confirmed and undo_no_show on a booking that is
\* not no_show change nothing.
C18_NoShowTransitions ==
    [][\A i \in Ids(bookings) :
          LET was == bookings[i].status
              is == bookings'[i].status
          IN /\ is \in Statuses
             /\ (is = "no_show" /\ was # "no_show") => was = "confirmed"
             /\ (was = "no_show" /\ is # "no_show")
                   => (is = "confirmed" /\ last'.op = "undo_no_show")
             /\ (last'.op = "mark_no_show" /\ last'.id = i /\ was # "confirmed")
                   => is = was
             /\ (last'.op = "undo_no_show" /\ last'.id = i /\ was # "no_show")
                   => is = was]_vars

\* ------------------------------------------------- extend specification
\* Staff enter bookings by hand and lengthen or shorten them.
ExtendAmounts == {0, -45, 90, 200}
ExtendStarts == {T(540), T(600)}

NextExtend ==
    \/ (Room /\ \E t \in ExtendStarts : add_booking(1, 1, t))
    \/ \E id \in Ids(bookings), m \in ExtendAmounts : extend_booking(id, m)
    \/ \E id \in Ids(bookings) : cancel_booking(id)

SpecExtend == Init /\ [][NextExtend]_vars

\* ----------------------------------------------------- duration range (C19)
DurationOf(b) == Mins(b.end_time) - Mins(b.booking_time)

\* C19: extend_booking refuses 0 minutes and every request that would make the
\* total duration less than 15 or more than 240 minutes, and a refused
\* request leaves every booking as it was; an accepted request changes the
\* end of that booking alone, to start + old duration + extend_minutes, within
\* [15, 240].
C19_ExtendRange ==
    [][\A id \in Ids(bookings), m \in ExtendAmounts :
          extend_booking(id, m) =>
              LET new_duration == DurationOf(bookings[id]) + m
              IN /\ (m = 0 \/ new_duration < 15 \/ new_duration > 240)
                       => (~last'.ok /\ bookings' = bookings)
                 /\ ~last'.ok => bookings' = bookings
                 /\ last'.ok =>
                       /\ new_duration \in 15..240
                       /\ bookings' = [bookings EXCEPT
                                         ![id].end_time = T(Mins(bookings[id].booking_time)
                                                            + new_duration)]
                       /\ DurationOf(bookings'[id]) = new_duration]_vars

\* a request was refused for a booking of 240 minutes that no other booking
\* and no block stands next to: it asked for 0 minutes or for more than 240
C19_Witness ==
    /\ last.op = "extend_booking"
    /\ ~last.ok
    /\ DurationOf(bookings[last.id]) = 240
    /\ blocked = << >>
    /\ \A i \in Ids(bookings) \ {last.id} : bookings[i].status = "cancelled"

\* ----------------------------------------------- duration specification
\* Customers book one or two services; staff edit a service's duration,
\* lengthen bookings and move them; customers reschedule.
ServiceSets == {{1}, {1, 2}}
EditedDurations == {45, 60}

DurationPublic ==
    \/ (~FormOpen /\ Room /\ \E S \in ServiceSets : confirm_booking(1, S, 2, T(540)))
    \/ (FormOpen /\ intake_form(1, 1, TRUE))

DurationEdits ==
    \/ \E m \in EditedDurations : edit_service(1, m)
    \/ \E id \in Ids(bookings) :
          /\ Mins(bookings[id].end_time) - Mins(bookings[id].booking_time) < MaxSnapshot
          /\ extend_booking(id, 30)
    \/ \E id \in Ids(bookings), d \in Dates, t \in EarlyTimes : move_booking(id, d, t)
    \/ \E id \in Ids(bookings), d \in Dates : customer_reschedule(1, id, d, T(540))
    \/ \E id \in Ids(bookings) : cancel_booking(id)

NextDuration == DurationPublic \/ (~FormOpen /\ DurationEdits)

SpecDuration == Init /\ [][NextDuration]_vars

\* ------------------------------------------------ duration snapshot (C20)
\* C20: end - start of a booking is fixed at creation: every request other
\* than extend_booking leaves it as it was, also an edit of the service's
\* duration, an admin move and a customer reschedule.
C20_DurationSnapshot ==
    [][last'.op # "extend_booking" =>
          \A i \in Ids(bookings) :
              DurationOf(bookings'[i]) = DurationOf(bookings[i])]_vars

\* ------------------------------------------------ stale-slot specification
\* A customer is past /book/confirm; before the intake form is posted staff
\* enter bookings and blocks, cancel bookings and delete blocks.
StalePublic ==
    \/ (~FormOpen /\ Room /\ \E d \in Dates, t \in EarlyTimes : confirm_booking(1, {1}, d, t))
    \/ \E ok \in BOOLEAN : intake_form(1, 1, ok)

StaleStaff ==
    \/ (Room /\ \E d \in Dates, t \in EarlyTimes : add_booking(1, d, t))
    \/ \E id \in Ids(bookings) : cancel_booking(id)
    \/ (BlockRoom /\ add_blocked_time_single(1, FALSE, T(570), T(600)))
    \/ (BlockRoom /\ add_blocked_time_single(2, TRUE, NoneStr, NoneStr))
    \/ (BlockRoom /\ add_blocked_time_recurring(weekday(2), FALSE, T(570), T(600)))
    \/ \E i \in 1..Len(blocked) : delete_blocked_time(i)

NextStale == StalePublic \/ StaleStaff

SpecStale == Init /\ [][NextStale]_vars

\* ------------------------------------------- commit-time validation (C21)
\* the pending interval of session c is hit by a block or overlaps a
\* confirmed booking of its date
PendingTaken(c) ==
    LET p == pending[c]
    IN \/ BlockHits(blocked, p.booking_date, Mins(p.booking_time), Mins(p.end_time))
       \/ TakenBy(bookings, {"confirmed"}, p.booking_date, Mins(p.booking_time),
                  Mins(p.end_time), 0)

\* C21: the intake post validates the pending interval again.  When a block
\* or a confirmed booking has come to overlap the interval since
\* confirm_booking, or the validator refuses it for any reason, the post
\* creates no booking, stores no intake form and clears the pending booking;
\* it creates a booking (with its intake form) only when the validator
\* accepts the interval in the state the post reads.
C21_CommitRevalidates ==
    [][(pending[1] # NoPending /\ intake_form(1, 1, TRUE)) =>
          LET p == pending[1]
              accepted == check_slot_available(bookings, blocked, p.booking_date,
                                               p.booking_time, p.end_time)
          IN /\ (PendingTaken(1) \/ ~accepted) =>
                   /\ bookings' = bookings
                   /\ intake_forms' = intake_forms
                   /\ pending'[1] = NoPending
                   /\ ~last'.ok
             /\ bookings' # bookings =>
                   /\ accepted
                   /\ ~PendingTaken(1)
                   /\ bookings' = Append(bookings, PendingBooking(p, 1))
                   /\ intake_forms' = intake_forms + 1]_vars

\* an intake post was refused and the pending booking cleared: a confirmed
\* booking entered after confirm_booking overlaps the interval it asked for
C21_Witness ==
    /\ last.op = "intake_form"
    /\ ~last.ok
    /\ last.start # NoneStr
    /\ pending[1] = NoPending
    /\ intake_forms = 0
    /\ TakenBy(bookings, {"confirmed"}, last.date, Mins(last.start),
               Mins(last.end_), 0)

\* ------------------------------------------- time conversion specification
\* The two conversions applied to every minute count from 0 to MaxMinutes:
\* a count is formatted, and the string it gave is parsed back.
TimeInputs == 0..MaxMinutes

InitTime ==
    /\ bookings = << >>
    /\ blocked = << >>
    /\ services = (1 :> 60 @@ 2 :> 30)
    /\ availability = << >>
    /\ pending = [c \in Clients |-> NoPending]
    /\ pc = [c \in Clients |-> "idle"]
    /\ now = [today |-> 0, mins |-> 0]
    /\ intake_forms = 0
    /\ \E n \in TimeInputs : last = Last("input", TRUE, n, 0, NoneStr, NoneStr, NoOld)

call_minutes_to_time ==
    /\ last.op = "input"
    /\ last' = Last("minutes_to_time", TRUE, last.id, 0, minutes_to_time(last.id),
                    NoneStr, NoOld)
    /\ UNCHANGED <<bookings, blocked, services, availability, pending, pc, now,
                   intake_forms>>

\* `id` is the number parsed, `old` the number the string was made from
call_time_to_minutes ==
    /\ last.op = "minutes_to_time"
    /\ last' = Last("time_to_minutes", TRUE, time_to_minutes(last.start), 0,
                    last.start, NoneStr, <<last.id>>)
    /\ UNCHANGED <<bookings, blocked, services, availability, pending, pc, now,
                   intake_forms>>

NextTime == call_minutes_to_time \/ call_time_to_minutes

SpecTime == InitTime /\ [][NextTime]_vars

\* ------------------------------------------------------- round trip (C22)
\* C22: for every n in [0, 1440) parsing the string minutes_to_time(n) gives
\* n back; for n >= 1440 the string is the two-digit hour n div 60 (24 or
\* more), a colon and the two-digit minute n mod 60: the hour does not wrap
\* to the next day.
C22_RoundTrip ==
    /\ (last.op = "time_to_minutes" /\ last.old[1] < 1440) => last.id = last.old[1]
    /\ (last.op = "minutes_to_time" /\ last.id >= 1440) =>
          /\ Len(last.start) = 5
          /\ last.start[3] = Colon
          /\ \A k \in {1, 2, 4, 5} : last.start[k] \in 0..9
          /\ last.start[1] * 10 + last.start[2] = last.id \div 60
          /\ last.start[1] * 10 + last.start[2] >= 24
          /\ last.start[4] * 10 + last.start[5] = last.id % 60

\* 1439 was formatted as 23:59 and parsed back to 1439
C22_Witness ==
    /\ last.op = "time_to_minutes"
    /\ last.old = <<1439>>
    /\ last.start = <<2, 3, Colon, 5, 9>>
    /\ last.id = 1439

\* --------------------------------------------------- slots specification
\* Staff add working hours that overlap the hours of day 1 or start off the
\* half hour, switch windows off, enter and cancel bookings and block half
\* an hour; customers ask for the slots of a date.
SlotWindows == {<<T(600), T(720)>>, <<T(555), T(640)>>}
SlotStarts == {T(540), T(600)}

SlotEdits ==
    \/ \E w \in SlotWindows :
          Len(availability) <= MaxWindows /\ add_availability(1, w[1], w[2])
    \/ \E k \in 1..Len(availability) :
          availability[k].is_active /\ delete_availability(k)
    \/ (Room /\ \E t \in SlotStarts : add_booking(1, 1, t))
    \/ \E id \in Ids(bookings) : cancel_booking(id)
    \/ (BlockRoom /\ add_blocked_time_single(1, FALSE, T(570), T(600)))

NextSlots ==
    \/ SlotEdits
    \/ \E d \in Dates, total \in {0, 45} : api_available_slots({1}, total, d)

SpecSlots == Init /\ [][NextSlots]_vars

\* ------------------------------------------------------ slot lists (C23)
RECURSIVE Ascending(_)
Ascending(S) ==
    IF S = {} THEN << >>
    ELSE LET least == CHOOSE x \in S : \A y \in S : x <= y
         IN <<least>> \o Ascending(S \ {least})

\* the slots one window gives for a duration on date d, in ascending order:
\* the starts wStart + 30 * k whose slot ends inside the window and which the
\* validator accepts
WindowSlots(w, d, duration) ==
    LET wStart == Mins(w.start_time)
        wEnd == Mins(w.end_time)
        starts == {t \in wStart..wEnd :
                      /\ (t - wStart) % 30 = 0
                      /\ t + duration <= wEnd
                      /\ check_slot_available(bookings, blocked, d, T(t),
                                              T(t + duration))}
        asc == Ascending(starts)
    IN [k \in 1..Len(asc) |-> [start |-> T(asc[k]), end |-> T(asc[k] + duration)]]

\* the slots of the windows k, k + 1, ... of the table, in storage order
RECURSIVE SlotsFromWindow(_, _, _)
SlotsFromWindow(k, d, duration) ==
    IF k > Len(availability) THEN << >>
    ELSE (IF availability[k].is_active /\ availability[k].day_of_week = weekday(d)
          THEN WindowSlots(availability[k], d, duration)
          ELSE << >>)
         \o SlotsFromWindow(k + 1, d, duration)

\* C23: for a date that is not day-blocked both slot generators, and the slots
\* request just answered, return exactly the slots of the active windows of
\* the date's weekday: window after window in storage order, and within a
\* window the starts wStart + 30 * k in ascending order whose slot ends inside
\* the window and is accepted by the validator.  Inactive windows give nothing
\* and the stride is 30 for every duration.
C23_SlotListExact ==
    /\ \A d \in Dates :
          ~DayBlocked(blocked, d) =>
              /\ \A s \in Services :
                    get_available_slots_for_date(bookings, blocked, availability,
                                                 services, s, d)
                        = SlotsFromWindow(1, d, services[s])
              /\ \A dur \in SlotDurations :
                    get_available_slots_for_duration(bookings, blocked,
                                                     availability, dur, d)
                        = SlotsFromWindow(1, d, dur)
    /\ (last.op = "api_available_slots" /\ ~DayBlocked(blocked, last.date))
          => last.res = SlotsFromWindow(1, last.date, last.id)

\* slots were asked for a date with two overlapping active windows and an
\* inactive one: one start is listed twice, and a start inside a window is
\* left out because the validator refuses it
C23_Witness ==
    /\ last.op = "api_available_slots"
    /\ \E j, k \in 1..Len(last.res) : j < k /\ last.res[j] = last.res[k]
    /\ \E k \in 1..Len(availability) :
          ~availability[k].is_active /\ availability[k].day_of_week = weekday(last.date)
    /\ \E m \in WindowStarts(availability, last.date, last.id) :
          m \notin Offered(last.res)

\* ------------------------------------------------ resizing specification
\* Staff enter bookings by hand (also on top of one another), complete and
\* cancel them, block time, and lengthen or shorten bookings.
ResizeAmounts == {30, 60, -30}
ResizeStarts == {T(540), T(600)}

ResizeBookings ==
    \/ (Room /\ \E d \in Dates, t \in ResizeStarts : add_booking(1, d, t))
    \/ \E id \in Ids(bookings) : mark_complete(id)
    \/ \E id \in Ids(bookings) : cancel_booking(id)
    \/ \E id \in Ids(bookings), m \in ResizeAmounts :
          /\ Mins(bookings[id].end_time) - Mins(bookings[id].booking_time) + m
                <= MaxSnapshot
          /\ extend_booking(id, m)

ResizeBlocks ==
    \/ (BlockRoom /\ add_blocked_time_single(1, FALSE, T(600), T(630)))
    \/ (BlockRoom /\ add_blocked_time_single(1, TRUE, NoneStr, NoneStr))
    \/ (BlockRoom /\ add_blocked_time_recurring(weekday(1), FALSE, T(630), T(660)))
    \/ \E i \in 1..Len(blocked) : delete_blocked_time(i)

NextResize == ResizeBookings \/ ResizeBlocks

SpecResize == Init /\ [][NextResize]_vars

\* ------------------------------------------------- trailing interval (C24)
\* booking id overlaps a confirmed or completed booking of its date
OverlapsOccupying(bks, id) ==
    TakenBy(bks, Occupying, bks[id].booking_date, Mins(bks[id].booking_time),
            Mins(bks[id].end_time), id)

\* C24: an extension of booking A by m > 0 minutes to at most 240 minutes goes
\* through exactly when no block hits [oldEnd, oldEnd + m) on A's date and no
\* other confirmed or completed booking of that date overlaps it.  When it
\* goes through only A's end changes, to oldEnd + m; when it is refused
\* nothing changes.  So an A that overlapped no occupying booking before the
\* extension overlaps none after it.
C24_ExtendTrailing ==
    [][\A id \in Ids(bookings), m \in ResizeAmounts :
          (m > 0 /\ DurationOf(bookings[id]) + m <= 240 /\ extend_booking(id, m)) =>
              LET A == bookings[id]
                  oldEnd == Mins(A.end_time)
                  free == FreeOf(bookings, blocked, Occupying, A.booking_date,
                                 oldEnd, oldEnd + m, id)
              IN /\ last'.ok <=> free
                 /\ last'.ok =>
                       bookings' = [bookings EXCEPT ![id].end_time = T(oldEnd + m)]
                 /\ ~last'.ok => bookings' = bookings
                 /\ (last'.ok /\ ~OverlapsOccupying(bookings, id))
                       => ~OverlapsOccupying(bookings', id)
                 /\ UNCHANGED <<blocked, services, availability, pending,
                                intake_forms, now>>]_vars

\* an extension of a 60-minute booking was refused (it asked for more time,
\* since shortening it by 30 minutes is always accepted): a completed booking
\* of the same date starts where the booking ends
C24_Witness ==
    /\ last.op = "extend_booking"
    /\ ~last.ok
    /\ DurationOf(bookings[last.id]) = 60
    /\ blocked = << >>
    /\ \E i \in Ids(bookings) \ {last.id} :
          /\ bookings[i].status = "completed"
          /\ bookings[i].booking_date = bookings[last.id].booking_date
          /\ bookings[i].booking_time = bookings[last.id].end_time

\* ----------------------------------------------- reducing specification
\* Staff make service 2 a five-hour service, enter bookings by hand on top of
\* one another, block time and days, and shorten bookings.
LongDurations == {300}
ReduceAmounts == {-30, -60}
ReduceStarts == {T(540), T(570)}

ReduceBookings ==
    \/ \E m \in LongDurations : edit_service(2, m)
    \/ (Room /\ \E svc \in Services, t \in ReduceStarts : add_booking(svc, 1, t))
    \/ \E id \in Ids(bookings) : mark_complete(id)
    \/ \E id \in Ids(bookings), m \in ReduceAmounts : extend_booking(id, m)

ReduceBlocks ==
    \/ (BlockRoom /\ add_blocked_time_single(1, FALSE, T(540), T(600)))
    \/ (BlockRoom /\ add_blocked_time_single(1, TRUE, NoneStr, NoneStr))
    \/ \E i \in 1..Len(blocked) : delete_blocked_time(i)

NextReduce == ReduceBookings \/ ReduceBlocks

SpecReduce == Init /\ [][NextReduce]_vars

\* ---------------------------------------------------------- reducing (C25)
\* the step sets the end of booking id to start + duration and leaves every
\* other field of every booking as it was
ResizedTo(id, duration) ==
    bookings' = [bookings EXCEPT
                   ![id].end_time = T(Mins(bookings[id].booking_time) + duration)]

\* C25 as claimed: a reduction (extend_minutes < 0) goes through whenever the
\* resulting duration is at least 15 minutes, whatever bookings and blocks
\* there are, and sets end = start + new duration, leaving start, date and
\* status as they were.
C25_ReduceAlways ==
    [][\A id \in Ids(bookings), m \in ReduceAmounts :
          (extend_booking(id, m) /\ DurationOf(bookings[id]) + m >= 15)
              => (last'.ok /\ ResizedTo(id, DurationOf(bookings[id]) + m))]_vars

\* C25 amended: a reduction is never checked against bookings or blocks, but
\* it is checked against both limits of the duration: it goes through exactly
\* when the resulting duration lies in [15, 240], also on a day-blocked date
\* and when the booking overlaps another booking or a block, and then sets
\* end = start + new duration and leaves start, date and status as they
\* were; otherwise it is refused and nothing changes.
C25_ReduceInRange ==
    [][\A id \in Ids(bookings), m \in ReduceAmounts :
          extend_booking(id, m) =>
              LET new_duration == DurationOf(bookings[id]) + m
              IN IF new_duration \in 15..240
                 THEN last'.ok /\ ResizedTo(id, new_duration)
                 ELSE ~last'.ok /\ bookings' = bookings]_vars

\* a booking that overlaps a completed booking, on a date with an all-day
\* block, has just been shortened
C25_Witness ==
    /\ last.op = "extend_booking"
    /\ last.ok
    /\ Mins(last.end_) < Mins(last.old[3])
    /\ DayBlocked(blocked, last.date)
    /\ TakenBy(bookings, {"completed"}, last.date, Mins(last.start),
               Mins(last.end_), last.id)

\* --------------------------------------------------- moving specification
\* Staff set the duration of service 2 (also to 0), enter bookings by hand up
\* to 23:30, complete and cancel them, and move them.
ZeroDurations == {0, 30}
MoveStarts == {T(540), T(600), T(1410)}

MoveEdits ==
    \/ \E m \in ZeroDurations : edit_service(2, m)
    \/ (Room /\ \E svc \in Services, t \in MoveStarts : add_booking(svc, 1, t))
    \/ \E id \in Ids(bookings) : mark_complete(id)
    \/ \E id \in Ids(bookings) : cancel_booking(id)
    \/ \E id \in Ids(bookings), d \in Dates, t \in MoveStarts : move_booking(id, d, t)

NextMove == MoveEdits

SpecMove == Init /\ [][NextMove]_vars

\* ------------------------------------------------- three clauses (C26)
\* C26: the conflict query of move_booking answers as the half-open overlap
\* on minute values does: for every booking, date and start time a move could
\* name, the query finds a conflict exactly when another confirmed or
\* completed booking of the date overlaps [new start, new end), also for
\* intervals of length zero and ends at or after 24:00.
C26_ThreeClausesAreOverlap ==
    \A id \in Ids(bookings), d \in Dates, t \in MoveStarts :
        LET new_end_time == MoveEnd(services, bookings[id], t)
        IN MoveConflict(bookings, id, d, t, new_end_time)
              <=> TakenBy(bookings, Occupying, d, Mins(t), Mins(new_end_time), id)

\* --------------------------------------------------- reading specification
\* Customers book, time passes, staff mark and unmark no-shows and cancel,
\* and staff and customers open the pages that list bookings.
ReadPages ==
    \/ \E d \in Dates : admin_calendar(d)
    \/ admin_bookings
    \/ customer_dashboard(1)
    \/ customer_appointments(1)
    \/ customer_history(1)

ReadStatus ==
    \/ \E id \in Ids(bookings) : mark_no_show(id)
    \/ \E id \in Ids(bookings) : undo_no_show(id)
    \/ \E id \in Ids(bookings) : cancel_booking(id)

NextRead ==
    \/ LifePublic
    \/ (~FormOpen /\ ReadStatus)
    \/ (~FormOpen /\ ReadPages)
    \/ (~FormOpen /\ \E d \in ClockDays, m \in ClockMins : clock_advances(d, m))

SpecRead == Init /\ [][NextRead]_vars

\* ------------------------------------------------- sweep before read (C27)
ReadOps == {"admin_calendar", "admin_bookings", "customer_dashboard",
            "customer_appointments", "customer_history"}

\* the row is confirmed although its end has passed at the clock
Overdue(b) ==
    /\ b.status = "confirmed"
    /\ \/ b.booking_date < now.today
       \/ (b.booking_date = now.today /\ Mins(b.end_time) <= now.mins)

\* C27: each page that lists bookings runs the sweep before its query: in the
\* rows a page has just returned at the clock (today, current time), and in
\* the store it read them from, no booking is confirmed with date < today, or
\* with date = today and end <= current time, also not a past booking that
\* undo_no_show had set back to confirmed.
C27_ReadsAfterSweep ==
    last.op \in ReadOps =>
        /\ \A k \in 1..Len(last.res) : ~Overdue(last.res[k])
        /\ \A i \in Ids(bookings) : ~Overdue(bookings[i])

\* the bookings list was opened and its sweep completed a booking: the list
\* holds that booking as completed, and a confirmed booking of today that
\* ends later
C27_Witness ==
    /\ last.op = "admin_bookings"
    /\ last.id > 0
    /\ \E k \in 1..Len(last.res) :
          /\ last.res[k].status = "completed"
          /\ last.res[k].booking_date = now.today
          /\ Mins(last.res[k].end_time) <= now.mins
    /\ \E k \in 1..Len(last.res) :
          /\ last.res[k].status = "confirmed"
          /\ last.res[k].booking_date = now.today

\* ------------------------------------------- the two slot lists agree (C28)
\* C28: for every date and duration the slot list of the admin reschedule
\* page, asked without an excluded booking, equals the slot list of the
\* public booking page, whatever bookings (completed ones too), blocks and
\* windows there are.
C28_SlotListsAgree ==
    \A d \in Dates, dur \in SlotDurations :
        get_available_slots_for_move(bookings, blocked, availability, d, dur, 0)
            = get_available_slots_for_duration(bookings, blocked, availability,
                                               dur, d)

\* ----------------------------------------------- block frame specification
\* Staff enter bookings by hand and change their statuses, and add and delete
\* blocks of every form, also a date range whose end lies before its start.
FrameStarts == {T(540), T(570)}

FrameBookings ==
    \/ (Room /\ \E d \in Dates, t \in FrameStarts : add_booking(1, d, t))
    \/ \E id \in Ids(bookings) : mark_complete(id)
    \/ \E id \in Ids(bookings) : cancel_booking(id)
    \/ \E id \in Ids(bookings) : mark_no_show(id)

FrameBlocks ==
    \/ \E a \in BOOLEAN :
          Len(blocked) < MaxBlockRows /\ add_blocked_time_single(1, a, T(570), T(600))
    \/ \E a \in BOOLEAN :
          /\ Len(blocked) < MaxBlockRows
          /\ add_blocked_time_recurring(weekday(1), a, T(540), T(600))
    \/ \E d \in Dates, e \in Dates :
          /\ Len(blocked) + (e - d + 1) <= MaxBlockRows
          /\ add_blocked_time_range(d, e)
    \/ \E m \in {0, 30} :
          Len(blocked) < MaxBlockRows /\ add_quick_blocked_time(1, T(540), m)
    \/ \E i \in 1..Len(blocked) : delete_blocked_time(i)

NextFrame == FrameBookings \/ FrameBlocks

SpecFrame == Init /\ [][NextFrame]_vars

\* ----------------------------------------------------- block frame (C29)
BlockOps == {"add_blocked_time", "add_quick_blocked_time", "delete_blocked_time"}

\* C29: a request that adds or deletes a block changes no booking, also when
\* the block lies over a booking; and a date-range block adds one all-day
\* row of a single date for each day from start_date to end_date inclusive,
\* in that order, and no row when end_date < start_date.
C29_BlocksLeaveBookings ==
    [][/\ last'.op \in BlockOps => bookings' = bookings
       /\ \A d \in Dates, e \in Dates :
             add_blocked_time_range(d, e) =>
                 /\ Len(blocked') = Len(blocked) + (IF e < d THEN 0 ELSE e - d + 1)
                 /\ SubSeq(blocked', 1, Len(blocked)) = blocked
                 /\ \A k \in 1..(Len(blocked') - Len(blocked)) :
                       blocked'[Len(blocked) + k] =
                           [date |-> d + k - 1, start_time |-> NoneStr,
                            end_time |-> NoneStr, is_all_day |-> TRUE,
                            is_recurring_weekly |-> FALSE,
                            recurring_day_of_week |-> -1]]_vars

\* a date range has just been blocked whose last day is day 2: days 1 and 2
\* are blocked all day while a confirmed booking lies on day 1
C29_Witness ==
    /\ last.op = "add_blocked_time"
    /\ blocked = <<BlockedTime(1, NoneStr, NoneStr, TRUE, FALSE, -1),
                   BlockedTime(2, NoneStr, NoneStr, TRUE, FALSE, -1)>>
    /\ \E i \in Ids(bookings) :
          bookings[i].status = "confirmed" /\ bookings[i].booking_date = 1

\* ------------------------------------------------ customer specification
\* Two customers book; time passes around the 24-hour mark; the reminder job
\* runs; each customer asks to reschedule or cancel bookings by id, their own
\* and others, and ids that do not exist.
CustomerClockDays == {0, 1, 2}
CustomerClockMins == {539, 540}
BookingIds == 1..MaxBookings

CustomerPublic ==
    \/ (~FormOpen /\ Room /\ \E d \in Dates : confirm_booking(1, {1}, d, T(540)))
    \/ (FormOpen /\ \E uid \in Clients : intake_form(1, uid, TRUE))

CustomerEdits ==
    \/ \E uid \in Clients, id \in BookingIds, d \in Dates :
          customer_reschedule(uid, id, d, T(570))
    \/ \E uid \in Clients, id \in BookingIds : customer_cancel(uid, id)

CustomerClock ==
    \/ \E d \in CustomerClockDays, m \in CustomerClockMins : clock_advances(d, m)
    \/ \E sent \in SUBSET Ids(bookings) : check_and_send_reminders(sent)

NextCustomer == CustomerPublic \/ (~FormOpen /\ (CustomerEdits \/ CustomerClock))

SpecCustomer == Init /\ [][NextCustomer]_vars

\* ------------------------------------------- ownership and 24 hours (C30)
\* booking id exists, belongs to the user, and starts more than 24 hours
\* after the clock
MayModify(user_id, id) ==
    /\ id \in Ids(bookings)
    /\ bookings[id].user_id = user_id
    /\ (bookings[id].booking_date - now.today) * 1440
          + Mins(bookings[id].booking_time) - now.mins > 24 * 60

\* C30: customer_reschedule and customer_cancel change a booking only for its
\* owner and only when it starts more than 24 hours after the current time:
\* for a booking of another user, an id that does not exist, or a start 24
\* hours away or less (also in the past), the request leaves every booking as
\* it was, with its date, start, end, status and reminder_sent.
C30_OwnAndEarlyOnly ==
    [][\A uid \in Clients, id \in BookingIds :
          ((\/ \E d \in Dates : customer_reschedule(uid, id, d, T(570))
            \/ customer_cancel(uid, id))
           /\ ~MayModify(uid, id))
              => (bookings' = bookings /\ ~last'.ok)]_vars

\* a request to reschedule a booking that starts in exactly 24 hours, and for
\* which the reminder has gone out, was refused
C30_Witness ==
    /\ last.op = "customer_reschedule"
    /\ ~last.ok
    /\ last.id \in Ids(bookings)
    /\ bookings[last.id].user_id = 1
    /\ bookings[last.id].reminder_sent
    /\ bookings[last.id].status = "confirmed"
    /\ MinutesUntil(bookings[last.id]) = 1440

====
